---- MODULE Spec2Model ----
(***************************************************************************)
(* A model of AyurPrakriti Pro Mega (src/AyurPrakriti_Pro_Mega.py): the    *)
(* scorer, the recommendation rules, the branded PDF generator with its    *)
(* fallbacks, and the users table with its startup seed and login.         *)
(*                                                                         *)
(* Percentages are kept in tenths of a percent (33.3 % is 333), weights in *)
(* tenths (0.9 is 9), so that round(x, 1) is a rounding to an integer.     *)
(***************************************************************************)
EXTENDS Integers, Sequences, FiniteSets, TLC

VARIABLES
    question_list,  \* scorer: the question list handed to score_dosha_from_answers
    answers,        \* scorer: the AnswerSet (question id -> Likert value)
    score_result,   \* scorer: the returned distribution, or NoResult
    psy_answers,    \* psychometric: the AnswerSet (question id -> value on 1..7)
    psych_pct,      \* psychometric: the returned axis scores, or NoResult
    dosha_pct,      \* recommendations: the (prakriti) ScoreDistribution
    vikriti_pct,    \* recommendations: the vikriti distribution
    psycho_pct,     \* recommendations: the axis scores
    career_recs,    \* recommendations: recommend_career's list, or NoResult
    rel_tips,       \* recommendations: recommend_relationship's list, or NoResult
    health_recs,    \* recommendations: recommend_health's record, or NoResult
    pdf_pc,         \* report: where the call of branded_pdf_report stands
    pdf_in,         \* report: the arguments of the call
    tmp_files,      \* report: the temp chart files that exist
    error_text,     \* report: error_text handed to _fallback_canvas_pdf, or None
    exc_msg,        \* report: str(e) of the exception caught in the fallback, or None
    pdf_out,        \* report: how the call ended
    embedded,       \* report: the chart images appended to the flow
    chart_log,      \* report: "Chart generation failed" has been logged
    chart_runs,     \* report: how often the chart block of the call has run
    unlink_failed,  \* report: the temp files whose unlink raised
    clock,          \* temp directory: datetime.now().timestamp(), in whole seconds
    gen,            \* temp directory: the report generations that share it
    tmp_dir,        \* temp directory: the chart files of TMP_DIR and who wrote them
    vr_pc,          \* variants: where the call of a variant's branded_pdf_report is
    vr_in,          \* variants: the variant called and its arguments
    vr_tmp,         \* variants: the chart files of the variant's TMP_DIR
    vr_out,         \* variants: how the call ended
    wconf,          \* footer: the watermark and footer settings of the build
    doc_pages,      \* footer: the number of pages the flow of the build fills
    footers,        \* footer: the page_text drawn on each page so far
    users,          \* database: the rows of the users table, in id order
    patients,       \* database: the rows of the patients table, in id order
    session,        \* st.session_state of the browser session: auth, user, user_info
    last_login,     \* the last call of verify_user: its arguments and what it returned
    last_op,        \* the last operation on the database file
    seeded_by,      \* the startup that inserted the first users row
    admin_reset,    \* the admin row has been updated by a reset since it was seeded
    ui_msg,         \* what the form handler of the last run showed: [form, kind]
    cfg_file,       \* config_rules.yaml: its text, or NoFile
    CONFIG,         \* the global CONFIG of the last run of the script, or Unbound
    cfg_save,       \* the last press of "Save config file": the text and the message
    cfg_op,         \* the last operation on the config file
    assessments     \* database: the rows of the assessments table, in id order

scoreVars == <<question_list, answers, score_result>>
psyVars == <<psy_answers, psych_pct>>
recVars == <<dosha_pct, vikriti_pct, psycho_pct, career_recs, rel_tips, health_recs>>
pdfVars ==
    <<pdf_pc, pdf_in, tmp_files, error_text, exc_msg, pdf_out, embedded, chart_log,
      chart_runs, unlink_failed>>
dbVars == <<users, patients, session, last_login, last_op, seeded_by, admin_reset, ui_msg>>
cfgVars == <<cfg_file, CONFIG, cfg_save, cfg_op>>
asmtVars == <<assessments>>
tmpVars == <<clock, gen, tmp_dir>>
vrVars == <<vr_pc, vr_in, vr_tmp, vr_out>>
ftVars == <<wconf, doc_pages, footers>>

vars ==
    <<scoreVars, psyVars, recVars, pdfVars, dbVars, cfgVars, asmtVars, tmpVars, vrVars,
      ftVars>>

NoResult == [none |-> TRUE]

----------------------------------------------------------------------------
(* Bounds *)

\* longest prefix of the question bank that is scored
MaxQ == 4

\* psychometric sliders moved away from their default, or left out of the AnswerSet
MaxEdits == 2

\* longest text (a traceback after its header, an exception message), in tokens
MaxTokens == 2

\* rows the users table and the patients table are filled up to
MaxUsers == 3
MaxPatients == 1

\* rows the assessments table is filled up to
MaxAssessments == 2

\* users and assessments where every operation of the app is run together
MaxAppUsers == 2
MaxAppAssessments == 1

\* pages of a report
MaxPages == 8

\* report generations that share the temp directory, and the seconds the clock
\* runs through
MaxGens == 2
MaxClock == 1

\* questions of a bank that the scored distributions of the health rules take
MaxHealthQ == 2

----------------------------------------------------------------------------
(* Helpers *)

Abs(x) == IF x < 0 THEN -x ELSE x

\* dict.get(key, default)
Get(d, key, default) == IF key \in DOMAIN d THEN d[key] ELSE default

\* as RoundNearest, the fraction dropped
RoundTruncates(num, den) == num \div den

\* round(num / den) for den > 0: to the nearest integer, a tie to the even one
\* (Python 3's round)
RoundNearest(num, den) ==
    LET q == num \div den
        r == num - q * den
    IN  IF 2 * r < den THEN q
        ELSE IF 2 * r > den THEN q + 1
        ELSE IF q % 2 = 0 THEN q ELSE q + 1

\* round(num / den) for den > 0 as it comes out of floating point: to the
\* nearest integer, and at a decimal tie up or down, as the double that stands
\* for the value lies above or below the tie
RoundFloat(num, den, up) ==
    LET q == num \div den
        r == num - q * den
    IN  IF 2 * r < den THEN q
        ELSE IF 2 * r > den THEN q + 1
        ELSE IF up THEN q + 1 ELSE q

----------------------------------------------------------------------------
(* Scorer *)

\* the keys of totals, in insertion order
DoshaOrder == <<"Vata", "Pitta", "Kapha">>
Doshas == {"Vata", "Pitta", "Kapha"}

\* the slider range of the dosha questions and the default of a missing answer
LikertMin == 1
LikertMax == 5
LikertDefault == 3

\* questions of DEFAULT_CFG["questions"]["prakriti"], weights in tenths
QuestionBank ==
    << [id |-> "P5",  weights |-> ("Vata" :> 9 @@ "Pitta" :> 1)],
       [id |-> "P12", weights |-> ("Kapha" :> 7 @@ "Vata" :> 3)],
       [id |-> "P23", weights |-> ("Pitta" :> 8 @@ "Kapha" :> 4)],
       [id |-> "P8",  weights |-> ("Pitta" :> 8)],
       [id |-> "P1",  weights |-> ("Vata" :> 10)],
       [id |-> "P9",  weights |-> ("Kapha" :> 10)] >>

\* questions of DEFAULT_CFG["questions"]["vikriti"], weights in tenths
VikritiBank ==
    << [id |-> "V1",  weights |-> ("Vata" :> 10)],
       [id |-> "V4",  weights |-> ("Pitta" :> 10)],
       [id |-> "V20", weights |-> ("Pitta" :> 6 @@ "Vata" :> 4)] >>

\* question lists an edited config file can hold: no weights, zero weights,
\* a negative weight
ZeroWeightList ==
    << [id |-> "Z1", weights |-> <<>>],
       [id |-> "Z2", weights |-> ("Vata" :> 0 @@ "Kapha" :> 0)] >>

NegWeightList ==
    << [id |-> "N1", weights |-> ("Vata" :> -5)],
       [id |-> "N2", weights |-> ("Pitta" :> 10)] >>

QuestionLists ==
    { SubSeq(QuestionBank, 1, n) :
        n \in 0 .. (IF MaxQ < Len(QuestionBank) THEN MaxQ ELSE Len(QuestionBank)) }
    \cup {ZeroWeightList, NegWeightList}

Ids(ql) == { ql[i].id : i \in 1 .. Len(ql) }

\* every AnswerSet over the ids of a question list, answered or not
AnswerSets(ql) ==
    UNION { [S -> LikertMin .. LikertMax] : S \in SUBSET Ids(ql) }

\* as totals, an unanswered question skipped
RECURSIVE TotalsSkipUnanswered(_, _, _)
TotalsSkipUnanswered(ans, ql, d) ==
    IF Len(ql) = 0 THEN 0
    ELSE Get(Head(ql).weights, d, 0) * Get(ans, Head(ql).id, 0)
         + TotalsSkipUnanswered(ans, Tail(ql), d)

\* totals[d] after the loop over question_list
RECURSIVE totals(_, _, _)
totals(ans, ql, d) ==
    IF Len(ql) = 0 THEN 0
    ELSE Get(Head(ql).weights, d, 0) * Get(ans, Head(ql).id, LikertDefault)
         + totals(ans, Tail(ql), d)

EqualSplit == [d \in Doshas |-> RoundNearest(1000, 3)]

\* as score_dosha_from_answers, the fallback taken for a zero grand total only
ScoreZeroGuardOnly(ans, ql) ==
    LET s == totals(ans, ql, "Vata") + totals(ans, ql, "Pitta")
             + totals(ans, ql, "Kapha")
    IN  IF s = 0 THEN EqualSplit
        ELSE [d \in Doshas |-> RoundNearest(1000 * totals(ans, ql, d), Abs(s))]

score_dosha_from_answers(ans, ql) ==
    LET s == totals(ans, ql, "Vata") + totals(ans, ql, "Pitta")
             + totals(ans, ql, "Kapha")
    IN  IF s <= 0 THEN EqualSplit
        ELSE [d \in Doshas |-> RoundNearest(1000 * totals(ans, ql, d), s)]

----------------------------------------------------------------------------
(* Specification of the scorer: the inputs are drawn, the function applied *)

ScoreInit ==
    /\ question_list \in QuestionLists
    /\ answers \in AnswerSets(question_list)
    /\ score_result = NoResult

Score ==
    /\ score_result = NoResult
    /\ score_result' = score_dosha_from_answers(answers, question_list)
    /\ UNCHANGED <<question_list, answers>>

----------------------------------------------------------------------------
(* Properties of the scorer *)

Scored == score_result # NoResult

ResultSum == score_result["Vata"] + score_result["Pitta"] + score_result["Kapha"]

GrandTotal ==
    totals(answers, question_list, "Vata") + totals(answers, question_list, "Pitta")
    + totals(answers, question_list, "Kapha")

\* x is num / den rounded to the nearest integer (den > 0), whichever way a tie goes
IsNearest(x, num, den) == 2 * Abs(x * den - num) <= den

\* C1: for every AnswerSet and question list, the three returned percentages
\* (in tenths) sum to 100.0 within 0.1.
C1_SumIs100 == Scored => Abs(ResultSum - 1000) <= 1

\* C1 witness: a fully answered list is scored and the rounded values sum to 99.9.
C1_Witness ==
    /\ Scored
    /\ Len(question_list) >= 3
    /\ DOMAIN answers = Ids(question_list)
    /\ GrandTotal > 0
    /\ ResultSum = 999

ZeroWeights(ql) ==
    \A i \in 1 .. Len(ql) : \A d \in Doshas : Get(ql[i].weights, d, 0) = 0

RECURSIVE WeightSum(_, _)
WeightSum(ql, d) ==
    IF Len(ql) = 0 THEN 0 ELSE Get(Head(ql).weights, d, 0) + WeightSum(Tail(ql), d)

AllWeights(ql) == WeightSum(ql, "Vata") + WeightSum(ql, "Pitta") + WeightSum(ql, "Kapha")

IsEqualSplit(r) == \A d \in Doshas : r[d] = 333

\* C3 as stated: an empty AnswerSet, and a question list whose weights are all
\* zero, both yield the equal split {33.3, 33.3, 33.3}.
C3_EmptyOrZeroIsEqualSplit ==
    (Scored /\ (DOMAIN answers = {} \/ ZeroWeights(question_list)))
        => IsEqualSplit(score_result)

\* C3 amended: a question list whose weights are all zero yields the equal split;
\* an empty AnswerSet is scored with every answer at the default 3, so each
\* category gets its share of the total weight, rounded to one decimal, and the
\* equal split only when the total weight is zero or negative.
C3_ZeroIsEqualSplit_EmptyIsWeightShare ==
    Scored =>
        /\ ZeroWeights(question_list) => IsEqualSplit(score_result)
        /\ DOMAIN answers = {} =>
              IF AllWeights(question_list) <= 0
              THEN IsEqualSplit(score_result)
              ELSE \A d \in Doshas :
                      IsNearest(score_result[d], 1000 * WeightSum(question_list, d),
                                AllWeights(question_list))

\* C3 witness: a list with weights is scored against the empty AnswerSet and the
\* result is not the equal split.
C3_Witness ==
    /\ Scored
    /\ DOMAIN answers = {}
    /\ Len(question_list) >= 2
    /\ ~IsEqualSplit(score_result)

\* C4: a grand total that is zero or negative gives the equal split (33.3 each);
\* otherwise each category's value is 100 * category_total / grand_total rounded
\* to one decimal.
C4_EqualSplitOrNormalised ==
    Scored =>
        IF GrandTotal <= 0
        THEN IsEqualSplit(score_result)
        ELSE \A d \in Doshas :
                IsNearest(score_result[d],
                          1000 * totals(answers, question_list, d), GrandTotal)

\* C4 witness: weights that are not all zero give a negative grand total, and the
\* equal split is returned.
C4_Witness ==
    /\ Scored
    /\ GrandTotal < 0
    /\ IsEqualSplit(score_result)

----------------------------------------------------------------------------
(* Psychometric scorer *)

PsyIds == {"E1", "E6", "A1", "A6", "C1", "C6", "N1", "N6", "O1", "O6"}

Axes == {"Extraversion", "Agreeableness", "Conscientiousness", "Emotionality",
         "Openness"}

\* the slider range of the psychometric questions and the slider's default
PsyMin == 1
PsyMax == 7
PsySliderDefault == 4

\* the score of every axis when an answer is missing
NeutralScore == 500

\* the AnswerSets that differ from the sliders' defaults at no more than n
\* ids, each of these set to a value of the scale or left out (0)
PsyAnswerSets(n) ==
    UNION { { [id \in (PsyIds \ {e \in E : f[e] = 0}) |->
                  IF id \in E THEN f[id] ELSE PsySliderDefault]
              : f \in [E -> {0} \cup (PsyMin .. PsyMax)] }
            : E \in {X \in SUBSET PsyIds : Cardinality(X) <= n} }

\* the item that counts as it is and the item that is reversed (8 - answer)
AxisItems ==
    [ Extraversion      |-> [pos |-> "E1", rev |-> "E6"],
      Agreeableness     |-> [pos |-> "A6", rev |-> "A1"],
      Conscientiousness |-> [pos |-> "C1", rev |-> "C6"],
      Emotionality      |-> [pos |-> "N1", rev |-> "N6"],
      Openness          |-> [pos |-> "O1", rev |-> "O6"] ]

\* twice the raw value of an axis: answers[pos] + (8 - answers[rev])
RawTwice(ans, axis) == ans[AxisItems[axis].pos] + (8 - ans[AxisItems[axis].rev])

\* as Rescale, the scale taken to start at 0: round(v / 6 * 100, 1)
RescaleFromZero(raw2) == RoundNearest(raw2 * 1000, 12)

\* round((v - 1) / 6 * 100, 1) in tenths, for v = raw2 / 2
Rescale(raw2) == RoundNearest((raw2 - 2) * 1000, 12)

\* as psychometric_tipiscale, an axis defaulted alone when one of its items is missing
PsychPerAxisDefault(ans) ==
    [a \in Axes |->
        IF {AxisItems[a].pos, AxisItems[a].rev} \subseteq DOMAIN ans
        THEN Rescale(RawTwice(ans, a)) ELSE NeutralScore]

psychometric_tipiscale(ans) ==
    IF PsyIds \subseteq DOMAIN ans
    THEN [a \in Axes |-> Rescale(RawTwice(ans, a))]
    ELSE [a \in Axes |-> NeutralScore]

PsyInit ==
    /\ psy_answers \in PsyAnswerSets(MaxEdits)
    /\ psych_pct = NoResult

Psych ==
    /\ psych_pct = NoResult
    /\ psych_pct' = psychometric_tipiscale(psy_answers)
    /\ UNCHANGED psy_answers

\* the score from which psych_profile_lines gives a specific line: 50
PsychLineThreshold == 500

\* psych_profile_lines of branded_pdf_report: the lines of the keys anxiety,
\* stress and burnout that reach the threshold, a key that is absent counting
\* as 0, or the default line when there is none
psych_profile_lines(psych) ==
    LET specific ==
            (IF Get(psych, "anxiety", 0) >= PsychLineThreshold THEN <<"Anxiety">> ELSE <<>>)
            \o (IF Get(psych, "stress", 0) >= PsychLineThreshold THEN <<"Stress">> ELSE <<>>)
            \o (IF Get(psych, "burnout", 0) >= PsychLineThreshold THEN <<"Burnout">> ELSE <<>>)
    IN  IF specific = <<>> THEN <<"Mind">> ELSE specific

----------------------------------------------------------------------------
(* Properties of the psychometric scorer *)

\* C5: every axis score returned by psychometric_tipiscale is within [0, 100],
\* when all ten items are answered on 1..7 and when the neutral default is returned.
C5_AxisWithin0And100 ==
    psych_pct # NoResult => \A a \in Axes : 0 <= psych_pct[a] /\ psych_pct[a] <= 1000

\* C5 witness: all ten items are answered and an axis reaches 100.
C5_Witness ==
    /\ psych_pct # NoResult
    /\ DOMAIN psy_answers = PsyIds
    /\ \E a \in Axes : psych_pct[a] = 1000

\* C6: if any of the ten expected ids is absent from the AnswerSet, all five
\* axes are 50, whatever the values of the ids that are present.
C6_MissingIdGivesNeutral ==
    (psych_pct # NoResult /\ ~(PsyIds \subseteq DOMAIN psy_answers))
        => \A a \in Axes : psych_pct[a] = NeutralScore

\* C6 witness: one id is absent, an axis whose two items are present has an
\* answer away from the middle, and all axes are 50.
C6_Witness ==
    /\ psych_pct # NoResult
    /\ Cardinality(PsyIds \ DOMAIN psy_answers) = 1
    /\ \E a \in Axes :
          /\ {AxisItems[a].pos, AxisItems[a].rev} \subseteq DOMAIN psy_answers
          /\ psy_answers[AxisItems[a].pos] = PsyMax
    /\ \A a \in Axes : psych_pct[a] = NeutralScore

\* C24: the report gives psychometric-specific guidance: some AnswerSet of the
\* assessment gives, through psychometric_tipiscale, a psych_pct for which
\* psych_profile_lines differs from the default "Mind:" line.
C24_SomeAnswersGiveSpecificLines ==
    \/ psych_pct # NoResult /\ psych_profile_lines(psych_pct) # <<"Mind">>
    \/ \E a \in PsyAnswerSets(MaxEdits) :
          psych_profile_lines(psychometric_tipiscale(a)) # <<"Mind">>

----------------------------------------------------------------------------
(* Recommendation rules *)

\* the keys of a distribution in iteration order: the scorer inserts them in
\* the order of totals
KeysInOrder(d) == SelectSeq(DoshaOrder, LAMBDA k : k \in DOMAIN d)

\* as MaxScan, a later key of equal value replacing the best one
RECURSIVE MaxScanKeepsLast(_, _, _)
MaxScanKeepsLast(d, keys, best) ==
    IF Len(keys) = 0 THEN best
    ELSE MaxScanKeepsLast(d, Tail(keys),
                          IF d[Head(keys)] >= d[best] THEN Head(keys) ELSE best)

\* as MaxKey, the last of the keys of the highest value
MaxKeyKeepsLast(d) == MaxScanKeepsLast(d, Tail(KeysInOrder(d)), Head(KeysInOrder(d)))

\* max(d, key=d.get): the keys are scanned in iteration order and the best one
\* is replaced only by a key of a greater value
RECURSIVE MaxScan(_, _, _)
MaxScan(d, keys, best) ==
    IF Len(keys) = 0 THEN best
    ELSE MaxScan(d, Tail(keys), IF d[Head(keys)] > d[best] THEN Head(keys) ELSE best)

MaxKey(d) == MaxScan(d, Tail(KeysInOrder(d)), Head(KeysInOrder(d)))

\* max() of an empty dict: "max() arg is an empty sequence"
ValueError == [raised |-> "ValueError"]

\* DEFAULT_CFG["mappings"]["career_rules"]
career_rules ==
    [ Vata  |-> <<"Writer", "Designer", "Consultant - Creative", "Researcher">>,
      Pitta |-> <<"Clinician", "Analyst", "Manager", "Engineer">>,
      Kapha |-> <<"Teacher", "Counselor", "Hospitality", "HR", "Agriculture">> ]

\* word in role, for the words recommend_career looks for
Contains(role, word) ==
    \/ role = word
    \/ word = "Research" /\ role \in {"Researcher", "Research & Innovation"}
    \/ word = "Creative" /\ role = "Consultant - Creative"

\* the thresholds of the personality cues and the scores, in tenths for the axes
CareerBaseScore == 50
OpennessBoostOver == 650
ConscientiousnessBoostOver == 650
ExtraversionBoostOver == 600
OpennessExtraRoleOver == 700
ExtraRoleScore == 65

CareerScore(role, psycho) ==
    CareerBaseScore
    + (IF /\ Get(psycho, "Openness", NeutralScore) > OpennessBoostOver
          /\ \E w \in {"Research", "Creative", "Writer"} : Contains(role, w)
       THEN 10 ELSE 0)
    + (IF /\ Get(psycho, "Conscientiousness", NeutralScore) > ConscientiousnessBoostOver
          /\ \E w \in {"Manager", "Engineer"} : Contains(role, w)
       THEN 8 ELSE 0)
    + (IF /\ Get(psycho, "Extraversion", NeutralScore) > ExtraversionBoostOver
          /\ \E w \in {"Clinician", "Teacher"} : Contains(role, w)
       THEN 6 ELSE 0)

\* as InsertByScore, x put in front of the elements of its own score
RECURSIVE InsertBeforeEqualScore(_, _)
InsertBeforeEqualScore(x, sorted) ==
    IF Len(sorted) = 0 THEN <<x>>
    ELSE IF Head(sorted).score > x.score
         THEN <<Head(sorted)>> \o InsertBeforeEqualScore(x, Tail(sorted))
         ELSE <<x>> \o sorted

\* sorted(recs, key=lambda x: -x["score"]): stable, so x goes behind every
\* element of a score at least its own
RECURSIVE InsertByScore(_, _)
InsertByScore(x, sorted) ==
    IF Len(sorted) = 0 THEN <<x>>
    ELSE IF Head(sorted).score >= x.score
         THEN <<Head(sorted)>> \o InsertByScore(x, Tail(sorted))
         ELSE <<x>> \o sorted

RECURSIVE SortByScoreDesc(_)
SortByScoreDesc(recs) ==
    IF Len(recs) = 0 THEN <<>>
    ELSE InsertByScore(recs[Len(recs)], SortByScoreDesc(SubSeq(recs, 1, Len(recs) - 1)))

recommend_career(dosha, psycho) ==
    IF DOMAIN dosha = {} THEN ValueError ELSE
    LET dom == MaxKey(dosha)
        base == career_rules[dom]
        recs == [i \in 1 .. Len(base) |->
                    [role |-> base[i], score |-> CareerScore(base[i], psycho),
                     reason |-> dom]]
        extra == IF /\ Get(psycho, "Openness", NeutralScore) > OpennessExtraRoleOver
                    /\ ~\E i \in 1 .. Len(recs) : Contains(recs[i].role, "Research")
                 THEN << [role |-> "Research & Innovation", score |-> ExtraRoleScore,
                          reason |-> "High openness"] >>
                 ELSE <<>>
    IN  SortByScoreDesc(recs \o extra)

\* the tip of the dominant category
DomTip ==
    [ Vata  |-> "Stability & routines",
      Pitta |-> "Cooling communication",
      Kapha |-> "Introduce small novelty" ]

AgreeablenessLowUnder == 400
EmotionalityHighOver == 600

recommend_relationship(dosha, psycho) ==
    IF DOMAIN dosha = {} THEN ValueError ELSE
    <<DomTip[MaxKey(dosha)]>>
    \o (IF Get(psycho, "Agreeableness", NeutralScore) < AgreeablenessLowUnder
        THEN <<"Reflective listening">> ELSE <<>>)
    \o (IF Get(psycho, "Emotionality", NeutralScore) > EmotionalityHighOver
        THEN <<"Emotion regulation">> ELSE <<>>)

\* as ThresholdMild, five points under one half
ThresholdMildBelowHalf == NeutralScore - 50

\* DEFAULT_CFG["mappings"]["dosha_thresholds"], in tenths
ThresholdMild == 550
ThresholdModerate == 700
ThresholdSevere == 850

\* as Severity, a score equal to a threshold left in the class below
SeverityAboveThreshold(score) ==
    IF score > ThresholdSevere THEN "severe"
    ELSE IF score > ThresholdModerate THEN "moderate"
    ELSE IF score > ThresholdMild THEN "mild"
    ELSE "balanced"

Severity(score) ==
    IF score >= ThresholdSevere THEN "severe"
    ELSE IF score >= ThresholdModerate THEN "moderate"
    ELSE IF score >= ThresholdMild THEN "mild"
    ELSE "balanced"

\* the static text blocks of recommend_health, named by their first words
DietText ==
    [ Vata  |-> <<"Warm, cooked meals">>,
      Pitta |-> <<"Cooling foods">>,
      Kapha |-> <<"Light, warm, slightly astringent foods">> ]

LifestyleText ==
    [ Vata  |-> <<"Daily warm oil massage (Abhyanga)">>,
      Pitta |-> <<"Avoid midday heat">>,
      Kapha |-> <<"Stimulating exercise">> ]

HerbsText ==
    [ Vata  |-> <<"Ashwagandha, Bala">>,
      Pitta |-> <<"Amla, Guduchi">>,
      Kapha |-> <<"Trikatu, Guggulu">> ]

\* as recommend_health, the herbs taken from the highest category of today's
\* (vikriti) distribution where it has one
RecommendHealthHerbsOfVikriti(dosha, vik, ties) ==
    IF DOMAIN dosha = {} THEN ValueError ELSE
    LET dom == MaxKey(dosha)
    IN  [ diet |-> DietText[dom],
          lifestyle |-> LifestyleText[dom],
          herbs |-> HerbsText[IF DOMAIN vik = {} THEN dom ELSE MaxKey(vik)],
          severity |-> [d \in DOMAIN dosha |->
                          Severity(RoundFloat(dosha[d] + Get(vik, d, 0), 2, ties[d]))] ]

\* the ways the ties of the three combined scores can go
TieChoices == [Doshas -> BOOLEAN]

\* The combined score is round((p + v) / 2, 1), in floating point: a value
\* that ends in 5 hundredths goes up or down (ties[d]).
recommend_health(dosha, vik, ties) ==
    IF DOMAIN dosha = {} THEN ValueError ELSE
    LET dom == MaxKey(dosha)
    IN  [ diet |-> DietText[dom],
          lifestyle |-> LifestyleText[dom],
          herbs |-> HerbsText[dom],
          severity |-> [d \in DOMAIN dosha |->
                          Severity(RoundFloat(dosha[d] + Get(vik, d, 0), 2, ties[d]))] ]

\* the values a category is given in the distributions that are drawn
DoshaValues == {0, 100, 200, 333, 700, 1000}

\* the distributions of the scorer, and the empty one a caller can pass
DoshaDists == [Doshas -> DoshaValues] \cup {<<>>}

\* two of the vikriti distributions put combined scores next to the thresholds
VikritiDists ==
    [Doshas -> {0, 700, 1000}]
    \cup { <<>>, "Pitta" :> 700,
           [Vata |-> 699, Pitta |-> 999, Kapha |-> 698],
           [Vata |-> 998, Pitta |-> 1000, Kapha |-> 401] }

PsychoProfiles ==
    LET neutral == [a \in Axes |-> NeutralScore]
    IN  { neutral,
          [neutral EXCEPT !["Openness"] = 667],
          [neutral EXCEPT !["Openness"] = 750],
          [neutral EXCEPT !["Conscientiousness"] = 667, !["Extraversion"] = 667],
          [neutral EXCEPT !["Agreeableness"] = 333, !["Emotionality"] = 667],
          [a \in Axes |-> 1000] }

RecInit ==
    /\ dosha_pct \in DoshaDists
    /\ vikriti_pct \in VikritiDists
    /\ psycho_pct \in PsychoProfiles
    /\ career_recs = NoResult
    /\ rel_tips = NoResult
    /\ health_recs = NoResult

\* the three calls of the Compute & Save Assessment handler
Recommend ==
    /\ health_recs = NoResult
    /\ career_recs' = recommend_career(dosha_pct, psycho_pct)
    /\ rel_tips' = recommend_relationship(dosha_pct, psycho_pct)
    /\ \E ties \in TieChoices :
          health_recs' = recommend_health(dosha_pct, vikriti_pct, ties)
    /\ UNCHANGED <<dosha_pct, vikriti_pct, psycho_pct>>

----------------------------------------------------------------------------
(* Health rules on scored distributions: the prakriti and the vikriti
   distribution are outputs of score_dosha_from_answers, as in the Compute &
   Save Assessment handler *)

\* a question list an edited config file can hold: one question that counts
\* for two categories and against the third
MixedWeightList ==
    << [id |-> "M1", weights |-> ("Vata" :> 5 @@ "Pitta" :> 5 @@ "Kapha" :> -5)] >>

\* the first questions of a bank, and the edited list
HealthLists(bank) ==
    { SubSeq(bank, 1, n) :
        n \in 0 .. (IF MaxHealthQ < Len(bank) THEN MaxHealthQ ELSE Len(bank)) }
    \cup {MixedWeightList}

\* what the scorer returns over the question lists
ScoredDists(lists) ==
    UNION { { score_dosha_from_answers(a, ql) : a \in AnswerSets(ql) } : ql \in lists }

HealthInit ==
    /\ dosha_pct \in ScoredDists(HealthLists(QuestionBank))
    /\ vikriti_pct \in ScoredDists(HealthLists(VikritiBank))
    /\ psycho_pct = [a \in Axes |-> NeutralScore]
    /\ career_recs = NoResult
    /\ rel_tips = NoResult
    /\ health_recs = NoResult

----------------------------------------------------------------------------
(* Properties of the recommendation rules *)

Recommended == health_recs # NoResult /\ health_recs # ValueError

\* d is a highest-valued category, and the first of them in the order Vata,
\* Pitta, Kapha
IsDominant(d) ==
    /\ \A e \in Doshas : dosha_pct[e] <= dosha_pct[d]
    /\ \A i, j \in 1 .. Len(DoshaOrder) :
          (DoshaOrder[j] = d /\ i < j) => dosha_pct[DoshaOrder[i]] < dosha_pct[d]

\* the categories whose roles, tip and diet block the three functions returned
CareerDoms ==
    { d \in Doshas : \E i \in 1 .. Len(career_recs) :
                        \E k \in 1 .. Len(career_rules[d]) :
                            career_recs[i].role = career_rules[d][k] }
RelDoms == { d \in Doshas : \E i \in 1 .. Len(rel_tips) : rel_tips[i] = DomTip[d] }
HealthDoms == { d \in Doshas : health_recs.diet = DietText[d] }

\* C7: exactly one dominant category is selected, the highest-valued one, the
\* first in the order Vata, Pitta, Kapha on a tie, and recommend_career,
\* recommend_relationship and recommend_health select the same one.
C7_OneDominantFirstOnTie ==
    Recommended =>
        \E d \in Doshas :
            /\ IsDominant(d)
            /\ CareerDoms = {d}
            /\ RelDoms = {d}
            /\ HealthDoms = {d}
            /\ \A i \in 1 .. Len(career_recs) :
                  career_recs[i].reason \in {d, "High openness"}

\* C7 witness: the three categories tie for the highest value and Vata is selected.
C7_Witness ==
    /\ Recommended
    /\ dosha_pct = [d \in Doshas |-> 333]
    /\ CareerDoms = {"Vata"}
    /\ RelDoms = {"Vata"}
    /\ HealthDoms = {"Vata"}

\* C8: recommend_health returns as diet, lifestyle and herbs exactly the static
\* blocks of the dominant category, whatever the vikriti distribution is.
C8_HealthBlocksOfDominant ==
    Recommended =>
        \A d \in Doshas :
            IsDominant(d) =>
                /\ health_recs.diet = DietText[d]
                /\ health_recs.lifestyle = LifestyleText[d]
                /\ health_recs.herbs = HerbsText[d]

\* C8 witness: {Vata: 70, Pitta: 20, Kapha: 10} with a vikriti distribution whose
\* highest category is Pitta gives the Vata blocks.
C8_Witness ==
    /\ Recommended
    /\ dosha_pct = [Vata |-> 700, Pitta |-> 200, Kapha |-> 100]
    /\ vikriti_pct = [Vata |-> 0, Pitta |-> 1000, Kapha |-> 0]
    /\ health_recs.diet = DietText["Vata"]
    /\ health_recs.lifestyle = LifestyleText["Vata"]
    /\ health_recs.herbs = HerbsText["Vata"]

\* the severity labels
SeverityLabels == {"severe", "moderate", "mild", "balanced"}

\* the label the claim gives the combined score s (in tenths)
LabelIs(lab, s) ==
    /\ lab \in SeverityLabels
    /\ lab = "severe" <=> s >= 850
    /\ lab = "moderate" <=> (700 <= s /\ s < 850)
    /\ lab = "mild" <=> (550 <= s /\ s < 700)
    /\ lab = "balanced" <=> s < 550

\* C14: recommend_health labels every category of the distribution, and no
\* other key, with the one label of its combined score s = round((p + v) / 2, 1),
\* v being 0 for a category the vikriti distribution lacks: severe iff s >= 85,
\* moderate iff 70 <= s < 85, mild iff 55 <= s < 70, balanced iff s < 55.
C14_SeverityByThresholds ==
    Recommended =>
        /\ DOMAIN health_recs.severity = DOMAIN dosha_pct
        /\ \A d \in DOMAIN dosha_pct :
              LET sum == dosha_pct[d] + (IF d \in DOMAIN vikriti_pct
                                         THEN vikriti_pct[d] ELSE 0)
              IN  \E s \in {sum \div 2, sum \div 2 + 1} :
                      /\ IsNearest(s, sum, 2)
                      /\ LabelIs(health_recs.severity[d], s)

\* C14 witness: Pitta has 70 in both distributions and is moderate; Vata has
\* 100 and is missing from the vikriti distribution, so it is balanced at 50.
C14_Witness ==
    /\ Recommended
    /\ vikriti_pct = ("Pitta" :> 700)
    /\ dosha_pct["Pitta"] = 700
    /\ dosha_pct["Vata"] = 1000
    /\ health_recs.severity["Pitta"] = "moderate"
    /\ health_recs.severity["Vata"] = "balanced"

\* C18: none of recommend_career, recommend_relationship and recommend_health
\* raises, and for an empty distribution they return no role, no tip and empty
\* diet, lifestyle and herbs lists.
C18_NoErrorPathEmptyOutput ==
    health_recs # NoResult =>
        /\ career_recs # ValueError
        /\ rel_tips # ValueError
        /\ health_recs # ValueError
        /\ DOMAIN dosha_pct = {} =>
              /\ career_recs = <<>>
              /\ rel_tips = <<>>
              /\ health_recs.diet = <<>>
              /\ health_recs.lifestyle = <<>>
              /\ health_recs.herbs = <<>>

\* the categories recommend_health gave a severity other than balanced
NonBalanced == { d \in DOMAIN health_recs.severity : health_recs.severity[d] # "balanced" }

SumsTo100(dist) ==
    /\ DOMAIN dist = Doshas
    /\ Abs(dist["Vata"] + dist["Pitta"] + dist["Kapha"] - 1000) <= 1

NonNegative(dist) == \A d \in DOMAIN dist : dist[d] >= 0

IsHighest(dist, d) == \A e \in DOMAIN dist : dist[d] >= dist[e]

HealthDone == health_recs # NoResult /\ health_recs # ValueError

\* C28 as stated: for prakriti and vikriti distributions of the scorer, each
\* summing to 100 within 0.1, at most one category has a severity other than
\* balanced, and that category has the highest value of the prakriti or of the
\* vikriti distribution.
C28_AtMostOneNonBalanced ==
    (HealthDone /\ SumsTo100(dosha_pct) /\ SumsTo100(vikriti_pct)) =>
        /\ Cardinality(NonBalanced) <= 1
        /\ \A d \in NonBalanced : IsHighest(dosha_pct, d) \/ IsHighest(vikriti_pct, d)

\* C28 amended: the same for distributions of the scorer that hold no negative
\* value (as every distribution scored with non-negative weights), under the
\* default thresholds.
C28_AtMostOneNonBalancedOfNonNegative ==
    ( /\ HealthDone
      /\ SumsTo100(dosha_pct) /\ SumsTo100(vikriti_pct)
      /\ NonNegative(dosha_pct) /\ NonNegative(vikriti_pct) ) =>
        /\ Cardinality(NonBalanced) <= 1
        /\ \A d \in NonBalanced : IsHighest(dosha_pct, d) \/ IsHighest(vikriti_pct, d)

\* C28 witness: two distributions without a negative value were scored, and
\* one category is mild, the highest of today's distribution and not of the
\* constitutional one.
C28_Witness ==
    /\ HealthDone
    /\ NonNegative(dosha_pct) /\ NonNegative(vikriti_pct)
    /\ \E d \in Doshas :
          /\ NonBalanced = {d}
          /\ health_recs.severity[d] = "mild"
          /\ IsHighest(vikriti_pct, d)
          /\ ~IsHighest(dosha_pct, d)

CareerDone == career_recs # NoResult /\ career_recs # ValueError

\* the base roles of the dominant category, in config order
BaseRoles == career_rules[MaxKey(dosha_pct)]

\* the roles each personality cue boosts
OpennessRoles == {"Writer", "Consultant - Creative", "Researcher"}
ConscientiousnessRoles == {"Manager", "Engineer"}
ExtraversionRoles == {"Clinician", "Teacher"}

\* 50 plus the boosts that apply to a base role
ExpectedScore(role) ==
    50 + (IF psycho_pct["Openness"] > 650 /\ role \in OpennessRoles THEN 10 ELSE 0)
       + (IF psycho_pct["Conscientiousness"] > 650 /\ role \in ConscientiousnessRoles
          THEN 8 ELSE 0)
       + (IF psycho_pct["Extraversion"] > 600 /\ role \in ExtraversionRoles
          THEN 6 ELSE 0)

ExtraExpected ==
    /\ psycho_pct["Openness"] > 700
    /\ \A k \in 1 .. Len(BaseRoles) : BaseRoles[k] # "Researcher"

\* the place of a role in the list before the sort: the base roles in config
\* order, the extra role last
PlaceBeforeSort(role) ==
    IF \E k \in 1 .. Len(BaseRoles) : BaseRoles[k] = role
    THEN CHOOSE k \in 1 .. Len(BaseRoles) : BaseRoles[k] = role
    ELSE Len(BaseRoles) + 1

\* C29: the recommendations are ranked by non-increasing score, roles of
\* equal score in config order, so the first has the maximum score; every base
\* role is there once with 50 plus its applicable boosts; "Research &
\* Innovation" with score 65 is there exactly when Openness > 70 and no base
\* role name contains "Research".
C29_CareerRankedByScore ==
    CareerDone =>
        /\ \A i, j \in 1 .. Len(career_recs) :
              i < j =>
                /\ career_recs[i].score >= career_recs[j].score
                /\ career_recs[i].score = career_recs[j].score =>
                      PlaceBeforeSort(career_recs[i].role)
                          < PlaceBeforeSort(career_recs[j].role)
        /\ \A i \in 1 .. Len(career_recs) : career_recs[1].score >= career_recs[i].score
        /\ \A k \in 1 .. Len(BaseRoles) :
              Cardinality({ i \in 1 .. Len(career_recs) :
                              career_recs[i] = [role |-> BaseRoles[k],
                                                score |-> ExpectedScore(BaseRoles[k]),
                                                reason |-> MaxKey(dosha_pct)] }) = 1
        /\ ExtraExpected <=>
              \E i \in 1 .. Len(career_recs) : career_recs[i].role = "Research & Innovation"
        /\ \A i \in 1 .. Len(career_recs) :
              career_recs[i].role = "Research & Innovation" => career_recs[i].score = 65
        /\ Len(career_recs) = Len(BaseRoles) + (IF ExtraExpected THEN 1 ELSE 0)

\* C29 witness: the careers of a Pitta-dominant profile with Openness 75 were
\* ranked: the extra role is first, the base roles of equal score follow in
\* config order.
C29_Witness ==
    /\ CareerDone
    /\ MaxKey(dosha_pct) = "Pitta"
    /\ psycho_pct["Openness"] = 750
    /\ Len(career_recs) = 5
    /\ career_recs[1].role = "Research & Innovation"
    /\ career_recs[2].role = "Clinician"
    /\ career_recs[5].role = "Engineer"

\* C29 second witness: boosts reorder the base roles (Manager and Engineer
\* at 58 in front of Clinician and Analyst).
C29_WitnessBoost ==
    /\ CareerDone
    /\ Len(career_recs) = 4
    /\ career_recs[1] = [role |-> "Manager", score |-> 58, reason |-> "Pitta"]
    /\ career_recs[2].role = "Engineer"
    /\ career_recs[3].role = "Clinician"

----------------------------------------------------------------------------
(* Report generator: branded_pdf_report and _fallback_canvas_pdf *)

None == [none |-> TRUE]

\* A text is a sequence of tokens: 0 is a whitespace character, n > 0 a word
\* of n characters.
TokenSizes == {0, 50, 700}

RECURSIVE SeqsUpTo(_, _)
SeqsUpTo(S, n) ==
    IF n = 0 THEN {<<>>}
    ELSE SeqsUpTo(S, n - 1)
         \cup { Append(t, x) : t \in { u \in SeqsUpTo(S, n - 1) : Len(u) = n - 1 },
                               x \in S }

\* str(e) of an exception: any text, the empty one included
Messages == SeqsUpTo(TokenSizes, MaxTokens)

\* traceback.format_exc(): the header "Traceback (most recent call last):" and
\* what follows it
Tracebacks == { <<9, 0>> \o t : t \in SeqsUpTo(TokenSizes, MaxTokens) }

\* text[:n]
RECURSIVE Slice(_, _)
Slice(text, n) ==
    IF Len(text) = 0 \/ n <= 0 THEN <<>>
    ELSE LET size == IF Head(text) = 0 THEN 1 ELSE Head(text)
         IN  IF size <= n THEN <<Head(text)>> \o Slice(Tail(text), n - size)
             ELSE <<n>>

\* str.split(): the words
Words(text) == SelectSeq(text, LAMBDA t : t > 0)

\* bool(text) of a str
Truthy(text) == Len(text) > 0

\* the loop of _wrap_text_simple: cur is the length of the current line, lines
\* the lengths of the lines appended
RECURSIVE WrapLoop(_, _, _, _)
WrapLoop(words, cur, lines, chars_per_line) ==
    IF Len(words) = 0
    THEN IF cur > 0 THEN Append(lines, cur) ELSE lines
    ELSE IF cur + Head(words) + 1 <= chars_per_line
         THEN WrapLoop(Tail(words), cur + (IF cur > 0 THEN 1 ELSE 0) + Head(words),
                       lines, chars_per_line)
         ELSE WrapLoop(Tail(words), Head(words), Append(lines, cur), chars_per_line)

_wrap_text_simple(text, chars_per_line) == WrapLoop(Words(text), 0, <<>>, chars_per_line)

\* tb[:1200] and the widths the error PDF wraps to
SnippetLen == 1200
ErrorPdfWidth == 90

\* The except branch of _fallback_canvas_pdf. The loop over the lines of msg
\* binds i; the loop over the lines of error_text reads i in its body, which
\* raises UnboundLocalError when the first loop ran over no line.
ErrorPdfRaises(msg, etext) ==
    LET iBound == Len(_wrap_text_simple(msg, ErrorPdfWidth)) > 0
    IN  /\ etext # None
        /\ Truthy(etext)
        /\ Len(_wrap_text_simple(etext, ErrorPdfWidth)) > 0
        /\ ~iBound

ChartOrder == <<"prakriti", "vikriti", "psych", "radar">>
ChartFiles == {"prakriti", "vikriti", "psych", "radar"}

\* as ImagesEmbedded, the existence checks left out
ImagesEmbeddedUnchecked(files) == ChartFiles

\* the chart images the flow gets: the radar if its file exists, the two bar
\* charts side by side if both files exist, the psychometric chart if its file
\* exists
ImagesEmbedded(files) ==
    (IF "radar" \in files THEN {"radar"} ELSE {})
    \cup (IF {"prakriti", "vikriti"} \subseteq files THEN {"prakriti", "vikriti"} ELSE {})
    \cup (IF "psych" \in files THEN {"psych"} ELSE {})

PdfInit ==
    /\ pdf_pc = "idle"
    /\ pdf_in = None
    /\ tmp_files = {}
    /\ error_text = None
    /\ exc_msg = None
    /\ pdf_out = "none"
    /\ embedded = {}
    /\ chart_log = FALSE
    /\ chart_runs = 0
    /\ unlink_failed = {}

\* the call, with its recommendation lists empty or not, and with or without
\* something in the primary composition (other than a chart image) that raises
PdfCall ==
    /\ pdf_pc = "idle"
    /\ \E ce, he, app, fault \in BOOLEAN :
          pdf_in' = [career_empty |-> ce, health_empty |-> he, include_appendix |-> app,
                     fault |-> fault]
    /\ pdf_pc' = "charts"
    /\ UNCHANGED <<tmp_files, error_text, exc_msg, pdf_out, embedded, chart_log,
                   chart_runs, unlink_failed>>

\* the four charts are written in one try block: the first failure skips the
\* rest and is logged
PdfCharts ==
    /\ pdf_pc = "charts"
    /\ \E n \in 0 .. Len(ChartOrder) :
          /\ tmp_files' = tmp_files \cup { ChartOrder[i] : i \in 1 .. n }
          /\ chart_log' = (n < Len(ChartOrder))
    /\ chart_runs' = chart_runs + 1
    /\ pdf_pc' = "primary"
    /\ UNCHANGED <<pdf_in, error_text, exc_msg, pdf_out, embedded, unlink_failed>>

\* the flow is built: an image is appended for the chart files that exist
PdfEmbed ==
    /\ pdf_pc = "primary"
    /\ embedded' = ImagesEmbedded(tmp_files)
    /\ pdf_pc' = "build"
    /\ UNCHANGED <<pdf_in, tmp_files, error_text, exc_msg, pdf_out, chart_log,
                   chart_runs, unlink_failed>>

\* doc.build succeeds, the images of the flow being read from their files: the
\* temp files are unlinked, a failing unlink is ignored
PdfPrimaryOk ==
    /\ pdf_pc = "build"
    /\ ~pdf_in.fault
    /\ embedded \subseteq tmp_files
    /\ \E kept \in SUBSET tmp_files : tmp_files' = kept /\ unlink_failed' = kept
    /\ pdf_out' = "primary"
    /\ pdf_pc' = "done"
    /\ UNCHANGED <<pdf_in, error_text, exc_msg, embedded, chart_log, chart_runs>>

\* an exception in the primary composition: the fallback is called with the
\* head of the traceback
PdfPrimaryFail ==
    /\ \/ pdf_pc \in {"primary", "build"} /\ pdf_in.fault
       \/ pdf_pc = "build" /\ ~(embedded \subseteq tmp_files)
    /\ \E tb \in Tracebacks : error_text' = Slice(tb, SnippetLen)
    /\ pdf_pc' = "fallback"
    /\ UNCHANGED <<pdf_in, tmp_files, exc_msg, pdf_out, embedded, chart_log, chart_runs,
                   unlink_failed>>

PdfFallbackOk ==
    /\ pdf_pc = "fallback"
    /\ pdf_out' = "fallback"
    /\ pdf_pc' = "done"
    /\ UNCHANGED <<pdf_in, tmp_files, error_text, exc_msg, embedded, chart_log, chart_runs,
                   unlink_failed>>

\* an exception e in the try block of _fallback_canvas_pdf
PdfFallbackFail ==
    /\ pdf_pc = "fallback"
    /\ \E msg \in Messages : exc_msg' = msg
    /\ pdf_pc' = "error_pdf"
    /\ UNCHANGED <<pdf_in, tmp_files, error_text, pdf_out, embedded, chart_log, chart_runs,
                   unlink_failed>>

\* the minimal error PDF, or the exception its code raises
PdfErrorPdf ==
    /\ pdf_pc = "error_pdf"
    /\ pdf_out' = IF ErrorPdfRaises(exc_msg, error_text) THEN "raised" ELSE "error_pdf"
    /\ pdf_pc' = "done"
    /\ UNCHANGED <<pdf_in, tmp_files, error_text, exc_msg, embedded, chart_log, chart_runs,
                   unlink_failed>>

----------------------------------------------------------------------------
(* Properties of the report generator *)

\* C2: branded_pdf_report never raises to its caller: whatever fails in the
\* primary composition, in the canvas fallback or in the minimal error PDF, the
\* call ends by returning a PDF byte buffer.
C2_NeverRaises == pdf_pc = "done" => pdf_out \in {"primary", "fallback", "error_pdf"}

\* C19: a failure of chart generation is logged and does not stop the report:
\* the chart block runs once per call, the flow gets an image only for a chart
\* file that exists when the flow is built, and a call whose charts failed
\* and in which nothing else raises ends in the primary composition.
C19_ChartFailureDegrades ==
    /\ chart_runs <= 1
    /\ pdf_pc = "primary" => (chart_log <=> tmp_files # ChartFiles)
    /\ pdf_pc = "build" =>
          /\ embedded \subseteq tmp_files
          /\ \A c \in {"radar", "psych"} : c \in tmp_files => c \in embedded
    /\ (pdf_pc = "done" /\ chart_log /\ ~pdf_in.fault) => pdf_out = "primary"

\* C26: whenever branded_pdf_report returns, by the primary composition, by
\* the canvas fallback or by the minimal error PDF, every temp chart file it
\* wrote has been unlinked, unless the unlink itself failed.
C26_TempFilesUnlinkedOnReturn ==
    (pdf_pc = "done" /\ pdf_out \in {"primary", "fallback", "error_pdf"}) =>
        tmp_files \subseteq unlink_failed

\* C19 witness: the third chart failed, which was logged; the call ended in the
\* primary composition with the two bar charts in the flow and the radar and
\* the psychometric chart left out.
C19_Witness ==
    /\ pdf_pc = "done"
    /\ pdf_out = "primary"
    /\ chart_log
    /\ chart_runs = 1
    /\ embedded = {"prakriti", "vikriti"}

----------------------------------------------------------------------------
(* Temp directory: report generations of several sessions, each a call of
   branded_pdf_report in its session's script thread, sharing TMP_DIR *)

Gens == 1 .. MaxGens

\* TMP_DIR / f"{chart}_{int(datetime.now().timestamp())}.png"
ChartPath(chart, now) == <<chart, now>>

Exists(dir, path) == \E f \in dir : f.path = path

\* opening a path for writing replaces the file that is there
WriteFile(dir, path, g) == { f \in dir : f.path # path } \cup { [path |-> path, by |-> g] }

Unlink(dir, paths) == { f \in dir : f.path \notin paths }

\* the charts whose file of generation g exists
ChartsPresent(dir, ts) == { c \in ChartFiles : Exists(dir, ChartPath(c, ts)) }

RECURSIVE WriteCharts(_, _, _, _)
\* the first n charts of ChartOrder written by generation g
WriteCharts(dir, n, ts, g) ==
    IF n = 0 THEN dir
    ELSE WriteFile(WriteCharts(dir, n - 1, ts, g), ChartPath(ChartOrder[n], ts), g)

TmpInit ==
    /\ clock = 0
    /\ gen = [g \in Gens |-> [pc |-> "idle", ts |-> 0, embedded |-> {}, out |-> "none"]]
    /\ tmp_dir = {}

\* a second passes
Tick ==
    /\ clock < MaxClock
    /\ clock' = clock + 1
    /\ UNCHANGED <<gen, tmp_dir>>

\* the call names its four temp files after the current whole second
GenCall(g) ==
    /\ gen[g].pc = "idle"
    /\ gen' = [gen EXCEPT ![g].pc = "charts", ![g].ts = clock]
    /\ UNCHANGED <<clock, tmp_dir>>

\* the chart block: the first failure skips the rest
GenCharts(g) ==
    /\ gen[g].pc = "charts"
    /\ \E n \in 0 .. Len(ChartOrder) : tmp_dir' = WriteCharts(tmp_dir, n, gen[g].ts, g)
    /\ gen' = [gen EXCEPT ![g].pc = "primary"]
    /\ UNCHANGED clock

\* the flow is built: an image is appended for the chart files that exist
GenEmbed(g) ==
    /\ gen[g].pc = "primary"
    /\ gen' = [gen EXCEPT ![g].pc = "build",
                          ![g].embedded = ImagesEmbedded(ChartsPresent(tmp_dir, gen[g].ts))]
    /\ UNCHANGED <<clock, tmp_dir>>

\* doc.build reads the images of the flow from their files and succeeds; the
\* four temp paths of the call are unlinked
GenBuildOk(g) ==
    /\ gen[g].pc = "build"
    /\ gen[g].embedded \subseteq ChartsPresent(tmp_dir, gen[g].ts)
    /\ tmp_dir' = Unlink(tmp_dir, { ChartPath(c, gen[g].ts) : c \in ChartFiles })
    /\ gen' = [gen EXCEPT ![g].pc = "done", ![g].out = "primary"]
    /\ UNCHANGED clock

\* doc.build does not find the file of an image of the flow: the fallback
\* composes the report, the temp files stay
GenBuildFail(g) ==
    /\ gen[g].pc = "build"
    /\ ~(gen[g].embedded \subseteq ChartsPresent(tmp_dir, gen[g].ts))
    /\ gen' = [gen EXCEPT ![g].pc = "done", ![g].out = "fallback"]
    /\ UNCHANGED <<clock, tmp_dir>>

----------------------------------------------------------------------------
(* Properties of the temp directory *)

\* the temp paths a generation has chosen
TempPaths(g) ==
    IF gen[g].pc = "idle" THEN {} ELSE { ChartPath(c, gen[g].ts) : c \in ChartFiles }

\* C20: two distinct report generations never use the same temp file path,
\* so that the file of every image a generation still has to embed exists and
\* is the one that generation wrote.
C20_TempPathsNeverCollide ==
    /\ \A g, h \in Gens : g # h => TempPaths(g) \cap TempPaths(h) = {}
    /\ \A g \in Gens :
          gen[g].pc = "build" =>
              \A c \in gen[g].embedded :
                  [path |-> ChartPath(c, gen[g].ts), by |-> g] \in tmp_dir

----------------------------------------------------------------------------
(* Report generator variants: branded_pdf_report of Mega_full_v2, Mega_fixed
   and Mega_v2 *)

Variants == {"Mega_full_v2", "Mega_fixed", "Mega_v2"}

\* Mega_full_v2 and Mega_fixed write four chart files and catch a failure of
\* the primary composition with a canvas fallback; Mega_v2 gets its chart as
\* bytes and has no fallback
WritesCharts(variant) == variant \in {"Mega_full_v2", "Mega_fixed"}

HasFallback(variant) == variant \in {"Mega_full_v2", "Mega_fixed"}

VrInit ==
    /\ vr_pc = "idle"
    /\ vr_in = None
    /\ vr_tmp = {}
    /\ vr_out = "none"

\* the call: the patient argument is a dict or not (Mega_v2 takes the name as
\* a string), and something in the composition raises or not
VrCall ==
    /\ vr_pc = "idle"
    /\ \E v \in Variants, dict, fault, app \in BOOLEAN :
          /\ WritesCharts(v) \/ dict
          /\ vr_in' = [variant |-> v, patient_is_dict |-> dict, fault |-> fault,
                       include_appendix |-> app]
          /\ vr_pc' = IF WritesCharts(v) THEN "charts" ELSE "primary"
    /\ UNCHANGED <<vr_tmp, vr_out>>

\* the chart try block of Mega_full_v2 and Mega_fixed
VrCharts ==
    /\ vr_pc = "charts"
    /\ \E n \in 0 .. Len(ChartOrder) : vr_tmp' = { ChartOrder[i] : i \in 1 .. n }
    /\ vr_pc' = "primary"
    /\ UNCHANGED <<vr_in, vr_out>>

\* patient.get(...) raises on a patient that is no dict
VrPrimaryRaises(in) == in.fault \/ ~in.patient_is_dict

\* the canvas fallback reads patient.get('name', ...) too
VrFallbackRaises(in) == ~in.patient_is_dict

\* the composition and doc.build succeed: the temp files are unlinked, a
\* failing unlink is ignored
VrPrimaryOk ==
    /\ vr_pc = "primary"
    /\ ~VrPrimaryRaises(vr_in)
    /\ \E kept \in SUBSET vr_tmp : vr_tmp' = kept
    /\ vr_out' = "primary"
    /\ vr_pc' = "done"
    /\ UNCHANGED vr_in

\* the composition or doc.build raises: Mega_full_v2 and Mega_fixed go to their
\* canvas fallback, Mega_v2 logs and raises again
VrPrimaryFail ==
    /\ vr_pc = "primary"
    /\ VrPrimaryRaises(vr_in)
    /\ IF HasFallback(vr_in.variant)
       THEN vr_pc' = "fallback" /\ vr_out' = vr_out
       ELSE vr_pc' = "done" /\ vr_out' = "raised"
    /\ UNCHANGED <<vr_in, vr_tmp>>

VrFallbackOk ==
    /\ vr_pc = "fallback"
    /\ ~VrFallbackRaises(vr_in)
    /\ vr_out' = "fallback"
    /\ vr_pc' = "done"
    /\ UNCHANGED <<vr_in, vr_tmp>>

\* the fallback raises: logged, then raised again
VrFallbackFail ==
    /\ vr_pc = "fallback"
    /\ VrFallbackRaises(vr_in)
    /\ vr_out' = "raised"
    /\ vr_pc' = "done"
    /\ UNCHANGED <<vr_in, vr_tmp>>

----------------------------------------------------------------------------
(* Properties of the report generator variants *)

\* C21: in every variant a failure of the primary composition is caught and
\* the call ends by returning a PDF byte buffer; no exception reaches the
\* caller.
C21_VariantsAlwaysReturnPdf == vr_pc = "done" => vr_out \in {"primary", "fallback"}

----------------------------------------------------------------------------
(* Page footer: _draw_page_footer_and_watermark, called by doc.build once per
   page as the page is finished *)

Lit(text) == [lit |-> text]
Field(name) == [field |-> name]
Num(n) == [num |-> n]

\* the options of the "Page number format" selectbox, as their literal parts
\* and replacement fields
PageFormats ==
    { <<Lit("Page "), Field("page")>>,
      <<Lit("Page "), Field("page"), Lit(" of "), Field("total")>> }

\* the settings: page_number_format one of the options, or absent
WconfSets == { [page_number_format |-> f] : f \in PageFormats } \cup { <<>> }

\* page_text: with "{total}" in fmt both fields are replaced by "%d" and filled
\* from (page_num, page_num); otherwise fmt.format(page=page_num)
PageText(fmt, page_num) ==
    [i \in 1 .. Len(fmt) |-> IF fmt[i] \in {Field("page"), Field("total")}
                             THEN Num(page_num) ELSE fmt[i]]

FtInit ==
    /\ wconf = None
    /\ doc_pages = 0
    /\ footers = <<>>

\* doc.build starts on a flow that will fill some number of pages
FooterBuild ==
    /\ wconf = None
    /\ wconf' \in WconfSets
    /\ doc_pages' \in 1 .. MaxPages
    /\ UNCHANGED footers

\* a page is finished: its footer is drawn with canvas_obj.getPageNumber()
FooterDraw ==
    /\ wconf # None
    /\ Len(footers) < doc_pages
    /\ LET fmt == Get(wconf, "page_number_format", <<Lit("Page "), Field("page")>>)
       IN  footers' = Append(footers, PageText(fmt, Len(footers) + 1))
    /\ UNCHANGED <<wconf, doc_pages>>

----------------------------------------------------------------------------
(* Properties of the page footer *)

\* C25: with the format 'Page {page} of {total}' the footer of page p of a
\* report of T pages reads 'Page p of T'.
C25_FooterShowsTotal ==
    (wconf # None
        /\ Get(wconf, "page_number_format", <<>>)
               = <<Lit("Page "), Field("page"), Lit(" of "), Field("total")>>) =>
        \A p \in 1 .. Len(footers) :
            footers[p] = <<Lit("Page "), Num(p), Lit(" of "), Num(doc_pages)>>

----------------------------------------------------------------------------
(* Config file: the bootstrap at startup and the YAML editor *)

NoFile == [nofile |-> TRUE]
Unbound == [unbound |-> TRUE]

\* questions of DEFAULT_CFG["questions"]["psychometric"]
PsyQuestions ==
    << [id |-> "E1"], [id |-> "E6"], [id |-> "A1"], [id |-> "A6"], [id |-> "C1"],
       [id |-> "C6"], [id |-> "N1"], [id |-> "N6"], [id |-> "O1"], [id |-> "O6"] >>

DEFAULT_CFG ==
    [ meta |-> [app_name |-> "AyurPrakriti Pro Mega"],
      questions |-> [prakriti |-> QuestionBank, vikriti |-> VikritiBank,
                     psychometric |-> PsyQuestions] ]

\* what a user's edit makes of the config: another name, other questions
EditedConfigs ==
    { [DEFAULT_CFG EXCEPT !.meta.app_name = "My Clinic"],
      [DEFAULT_CFG EXCEPT !.questions.prakriti = ZeroWeightList] }

\* A YAML text is kept as what the loader makes of it: the text of a mapping,
\* the empty text, a text that does not parse.
\* yaml.safe_dump(doc, f, sort_keys=False)
yaml_safe_dump(doc) == [yaml |-> "mapping", doc |-> doc]

EmptyText == [yaml |-> "empty"]
InvalidText == [yaml |-> "invalid"]

ConfigTexts ==
    { yaml_safe_dump(c) : c \in {DEFAULT_CFG} \cup EditedConfigs }
    \cup {EmptyText, InvalidText}

YamlError == [raised |-> "YAMLError"]
NameError == [raised |-> "NameError"]

\* yaml.safe_load(text): the document, None of the empty text, or an error
yaml_safe_load(text) ==
    IF text.yaml = "mapping" THEN text.doc
    ELSE IF text.yaml = "empty" THEN None
    ELSE YamlError

\* as BootstrapFile, the file-exists guard left out
BootstrapOverwrites(f) == yaml_safe_dump(DEFAULT_CFG)

\* the config file after "if not CFG_PATH.exists(): ... safe_dump(DEFAULT_CFG)"
BootstrapFile(f) == IF f = NoFile THEN yaml_safe_dump(DEFAULT_CFG) ELSE f

\* what "CONFIG = yaml.safe_load(f)" evaluates to in a run that finds the file f
LoadConfig(f) == yaml_safe_load(BootstrapFile(f))

\* the run gets to the widgets: the load did not raise, and CONFIG["meta"]
\* of st.set_page_config can be read
RunReachesUi(f) == LoadConfig(f) \notin {YamlError, None}

\* the bootstrap of a run of the script that gets to the widgets
ConfigBootstrap ==
    /\ RunReachesUi(cfg_file)
    /\ cfg_file' = BootstrapFile(cfg_file)
    /\ CONFIG' = LoadConfig(cfg_file)

\* save_config(newcfg) as the script can call it: no def, no import and no
\* assignment binds the name, so the call raises NameError
save_config(newcfg) == NameError

\* the handler of "Save config file": the message, and the file afterwards.
\* Both yaml.safe_load and save_config are called inside one try whose
\* except Exception reports "Invalid YAML: " + str(e).
SaveConfigHandler(text, f) ==
    LET newcfg == yaml_safe_load(text)
    IN  IF newcfg = YamlError \/ save_config(newcfg) = NameError
        THEN [msg |-> "Invalid YAML", file |-> f]
        ELSE IF save_config(newcfg).save_ok
             THEN [msg |-> "Config saved", file |-> save_config(newcfg).file]
             ELSE [msg |-> "Save failed", file |-> f]

CfgInit ==
    /\ cfg_file = NoFile
    /\ CONFIG = Unbound
    /\ cfg_save = None
    /\ cfg_op = "none"

\* the user edits, replaces or removes config_rules.yaml outside the app
EditConfigFile ==
    /\ \E f \in (ConfigTexts \cup {NoFile}) \ {cfg_file} : cfg_file' = f
    /\ cfg_op' = "user_edit"
    /\ UNCHANGED <<CONFIG, cfg_save>>

----------------------------------------------------------------------------
(* Database, startup and login *)

\* what the text inputs of the forms are filled with
Usernames == {"", "admin", "bob", "eve"}
Passwords == {"", "admin123", "secret"}
Roles == {"clinician", "admin"}

DefaultAdminPassword == "admin123"

\* A password hash is the scheme that made it and the password it was made of:
\* verification with the same scheme succeeds for that password alone (salts
\* and collisions are left out).
\* pwd_context.hash(pw) of CryptContext(schemes=["pbkdf2_sha256"])
pwd_context_hash(pw) == [scheme |-> "pbkdf2_sha256", pw |-> pw]

\* hash_password(pw) of Mega_full_v2: the hex digest of PBKDF2 with a fixed salt
hash_password(pw) == [scheme |-> "pbkdf2_hex", pw |-> pw]

\* the schemes of Mega's pwd_context
PwdContextSchemes == {"pbkdf2_sha256"}

\* pwd_context.verify(password, ph): a hash of no scheme of the context raises
pwd_context_verify(password, ph) ==
    IF ph.scheme \in PwdContextSchemes
    THEN IF ph.pw = password THEN "true" ELSE "false"
    ELSE "raises"

UserRow(un, dn, ph, role) ==
    [username |-> un, display_name |-> dn, password_hash |-> ph, role |-> role]

HasUser(u, un) == \E i \in 1 .. Len(u) : u[i].username = un

\* as MegaSeed, the default admin put back whenever the stored one differs:
\* INSERT OR REPLACE without the COUNT guard
MegaSeedReplaces(u) ==
    LET row == UserRow("admin", "Administrator", pwd_context_hash(DefaultAdminPassword),
                       "admin")
    IN  IF HasUser(u, "admin")
        THEN [i \in 1 .. Len(u) |-> IF u[i].username = "admin" THEN row ELSE u[i]]
        ELSE Append(u, row)

\* as MegaSeed, the role column left to its default 'clinician'
MegaSeedDefaultRole(u) ==
    IF Len(u) = 0
    THEN <<UserRow("admin", "Administrator", pwd_context_hash(DefaultAdminPassword),
                   "clinician")>>
    ELSE u

\* module startup of Mega: the default admin is inserted if users has no row
MegaSeed(u) ==
    IF Len(u) = 0
    THEN <<UserRow("admin", "Administrator", pwd_context_hash(DefaultAdminPassword),
                   "admin")>>
    ELSE u

\* ensure_db_and_admin of Mega_full_v2: the admin is inserted if no row has the
\* username admin
ensure_db_and_admin(u) ==
    IF HasUser(u, "admin") THEN u
    ELSE Append(u, UserRow("admin", "Administrator", hash_password(DefaultAdminPassword),
                           "admin"))

\* as verify_user, the password not compared
VerifyUserByNameOnly(u, username, password) ==
    IF ~HasUser(u, username) THEN [ok |-> FALSE, info |-> None]
    ELSE LET r == u[CHOOSE i \in 1 .. Len(u) : u[i].username = username]
         IN  [ok |-> TRUE, info |-> [display_name |-> r.display_name, role |-> r.role]]

\* verify_user: (ok, info)
verify_user(u, username, password) ==
    IF ~HasUser(u, username) THEN [ok |-> FALSE, info |-> None]
    ELSE LET r == u[CHOOSE i \in 1 .. Len(u) : u[i].username = username]
         IN  [ok |-> pwd_context_verify(password, r.password_hash) = "true",
              info |-> [display_name |-> r.display_name, role |-> r.role]]

\* st.session_state of a browser session that has run nothing yet
NoSession ==
    [auth |-> FALSE, user |-> None, user_info |-> None, last_assessment |-> None,
     last_aid |-> None, last_pdf |-> None]

\* which startup seeds an empty users table
SeededBy(before, by) == IF Len(before) = 0 THEN by ELSE seeded_by

\* as ShowsUserForm, the form rendered for every role
ShowsUserFormToAll(info) == TRUE

\* role = st.session_state.user_info.get("role", "clinician"): the form
\* create_user_form is rendered if role == "admin"
ShowsUserForm(info) == Get(info, "role", "clinician") = "admin"

\* as InsertUser, the row of the same username replaced (INSERT OR REPLACE)
InsertUserReplaces(u, row) ==
    IF HasUser(u, row.username)
    THEN [rows |-> [i \in 1 .. Len(u) |->
                       IF u[i].username = row.username THEN row ELSE u[i]],
          error |-> FALSE]
    ELSE [rows |-> Append(u, row), error |-> FALSE]

\* INSERT INTO users under "username TEXT UNIQUE": the rows afterwards, and
\* whether the statement raised
InsertUser(u, row) ==
    IF HasUser(u, row.username)
    THEN [rows |-> u, error |-> TRUE]
    ELSE [rows |-> Append(u, row), error |-> FALSE]

DbInit ==
    /\ users = <<>>
    /\ patients = <<>>
    /\ session = NoSession
    /\ last_login = None
    /\ last_op = "none"
    /\ seeded_by = "none"
    /\ admin_reset = FALSE
    /\ ui_msg = None

\* a run of the Mega script in which no button is pressed: the startup alone
MegaStartup ==
    /\ LoadConfig(cfg_file) # YamlError
    /\ cfg_file' = BootstrapFile(cfg_file)
    /\ CONFIG' = LoadConfig(cfg_file)
    /\ cfg_op' = "startup"
    /\ users' = MegaSeed(users)
    /\ seeded_by' = SeededBy(users, "mega")
    /\ last_op' = "mega_startup"
    /\ ui_msg' = None
    /\ UNCHANGED <<patients, session, last_login, admin_reset, cfg_save>>

\* a run that finds a config file that does not parse: yaml.safe_load raises
\* and the script ends there, before the database is opened
MegaStartupCrash ==
    /\ LoadConfig(cfg_file) = YamlError
    /\ CONFIG' = Unbound
    /\ cfg_op' = "startup_crash"
    /\ UNCHANGED <<cfg_file, cfg_save, dbVars>>

\* a run of the Mega script with the Login button pressed
MegaLogin ==
    /\ ConfigBootstrap
    /\ cfg_op' = "startup"
    /\ \E un \in Usernames, pw \in Passwords :
        LET u == MegaSeed(users)
            r == verify_user(u, un, pw)
        IN  /\ users' = u
            /\ seeded_by' = SeededBy(users, "mega")
            /\ last_login' = [username |-> un, password |-> pw, ok |-> r.ok,
                              info |-> r.info]
            /\ session' = IF r.ok
                          THEN [session EXCEPT !.auth = TRUE, !.user = un,
                                               !.user_info = r.info]
                          ELSE session
            /\ ui_msg' = [form |-> "login", kind |-> IF r.ok THEN "success" ELSE "error",
                          username |-> un]
            /\ last_op' = "mega_login"
            /\ UNCHANGED <<patients, admin_reset, cfg_save>>

\* a run with Create patient pressed: behind the login, and the name required
MegaCreatePatient ==
    /\ ConfigBootstrap
    /\ cfg_op' = "startup"
    /\ session.auth
    /\ Len(patients) < MaxPatients
    /\ \E name \in {"", "Asha"} :
          /\ patients' = IF name = "" THEN patients ELSE Append(patients, name)
          /\ ui_msg' = [form |-> "new_patient",
                        kind |-> IF name = "" THEN "warning" ELSE "success",
                        username |-> ""]
    /\ users' = MegaSeed(users)
    /\ seeded_by' = SeededBy(users, "mega")
    /\ last_op' = "mega_create_patient"
    /\ UNCHANGED <<session, last_login, admin_reset, cfg_save>>

\* as NewAssessmentTabPasses, the run going on without a patient
NewAssessmentTabNeverStops(p) == TRUE

\* the second tab: "if patients.empty: st.info(...); st.stop()" ends the run,
\* so the script gets to the third and fourth tab only with a patient
NewAssessmentTabPasses(p) == Len(p) > 0

\* a run with Create user pressed: the form is in the third tab, behind the
\* login and behind the st.stop() of the second tab while there is no patient,
\* and is shown to the role admin only; the INSERT fails on a username that
\* exists (UNIQUE) and the failure is shown as "Error: ..."
MegaCreateUser ==
    /\ ConfigBootstrap
    /\ cfg_op' = "startup"
    /\ session.auth
    /\ NewAssessmentTabPasses(patients)
    /\ ShowsUserForm(session.user_info)
    /\ Len(users) < MaxUsers
    /\ \E un \in Usernames, pw \in Passwords, role \in Roles :
          LET u == MegaSeed(users)
              ins == InsertUser(u, UserRow(un, "Name", pwd_context_hash(pw), role))
          IN  IF un = "" \/ pw = ""
              THEN /\ users' = u
                   /\ ui_msg' = [form |-> "create_user", kind |-> "warning",
                                 username |-> un]
              ELSE /\ users' = ins.rows
                   /\ ui_msg' = [form |-> "create_user",
                                 kind |-> IF ins.error THEN "error" ELSE "success",
                                 username |-> un]
    /\ seeded_by' = SeededBy(users, "mega")
    /\ last_op' = "mega_create_user"
    /\ UNCHANGED <<patients, session, last_login, admin_reset, cfg_save>>

\* a run with "Save config file" pressed: the editor is in the fourth tab,
\* behind the login and the st.stop() of the second tab
MegaSaveConfig ==
    /\ RunReachesUi(cfg_file)
    /\ session.auth
    /\ NewAssessmentTabPasses(patients)
    /\ \E text \in ConfigTexts :
          LET r == SaveConfigHandler(text, BootstrapFile(cfg_file))
          IN  /\ cfg_file' = r.file
              /\ cfg_save' = [text |-> text, msg |-> r.msg]
    /\ CONFIG' = LoadConfig(cfg_file)
    /\ cfg_op' = "save_config"
    /\ users' = MegaSeed(users)
    /\ seeded_by' = SeededBy(users, "mega")
    /\ last_op' = "mega_save_config"
    /\ ui_msg' = None
    /\ UNCHANGED <<patients, session, last_login, admin_reset>>

\* a new browser session: st.session_state starts empty
NewSession ==
    /\ session # NoSession
    /\ session' = NoSession
    /\ last_op' = "new_session"
    /\ UNCHANGED <<users, patients, last_login, seeded_by, admin_reset, ui_msg,
                   cfgVars>>

\* the start of Mega_full_v2 on the same database file
FullV2Startup ==
    /\ users' = ensure_db_and_admin(users)
    /\ seeded_by' = SeededBy(users, "full_v2")
    /\ last_op' = "full_v2_startup"
    /\ UNCHANGED <<patients, session, last_login, admin_reset, ui_msg, cfgVars>>

\* "Reset admin to admin123 (one-click)" of Mega_full_v2, after its startup
FullV2ResetAdmin ==
    LET u == ensure_db_and_admin(users)
    IN  /\ users' = [i \in 1 .. Len(u) |->
                        IF u[i].username = "admin"
                        THEN [u[i] EXCEPT !.password_hash = hash_password(DefaultAdminPassword)]
                        ELSE u[i]]
        /\ seeded_by' = SeededBy(users, "full_v2")
        /\ admin_reset' = TRUE
        /\ last_op' = "full_v2_reset_admin"
        /\ UNCHANGED <<patients, session, last_login, ui_msg, cfgVars>>

\* the hash reset_admin.py stores: pwd_context.hash of its own
\* CryptContext(schemes=["bcrypt"]), or, where that raises, the hex digest of
\* PBKDF2 with the salt "ayur_salt_v2"
ResetAdminHashes(pw) ==
    { [scheme |-> "bcrypt", pw |-> pw], [scheme |-> "pbkdf2_hex", pw |-> pw] }

\* the hash force_admin_bcrypt.py stores: ctx.hash of
\* CryptContext(schemes=["bcrypt", "pbkdf2_sha256", "argon2"]), whose default
\* scheme is the first
ForceAdminHash(pw) == [scheme |-> "bcrypt", pw |-> pw]

\* reset_admin.py on the database: the admin row is updated (hash, display
\* name, role) or inserted
ResetAdminScript ==
    /\ \E hashed \in ResetAdminHashes(DefaultAdminPassword) :
          users' = IF HasUser(users, "admin")
                   THEN [i \in 1 .. Len(users) |->
                           IF users[i].username = "admin"
                           THEN UserRow("admin", "Administrator", hashed, "admin")
                           ELSE users[i]]
                   ELSE Append(users, UserRow("admin", "Administrator", hashed, "admin"))
    /\ admin_reset' = TRUE
    /\ last_op' = "reset_admin"
    /\ UNCHANGED <<patients, session, last_login, seeded_by, ui_msg, cfgVars>>

\* force_admin_bcrypt.py on the database the app has made: the hash of the
\* admin row is updated, or the row inserted
ForceAdminBcryptScript ==
    /\ last_op # "none"
    /\ users' = IF HasUser(users, "admin")
                THEN [i \in 1 .. Len(users) |->
                        IF users[i].username = "admin"
                        THEN [users[i] EXCEPT
                                !.password_hash = ForceAdminHash(DefaultAdminPassword)]
                        ELSE users[i]]
                ELSE Append(users, UserRow("admin", "Administrator",
                                           ForceAdminHash(DefaultAdminPassword), "admin"))
    /\ admin_reset' = TRUE
    /\ last_op' = "force_admin_bcrypt"
    /\ UNCHANGED <<patients, session, last_login, seeded_by, ui_msg, cfgVars>>

----------------------------------------------------------------------------
(* Assessments: Compute & Save Assessment and the downloads *)

\* the sliders of a question list, all at their default or the one of id moved
\* to value
SliderSets(ql, default, id, value) ==
    { [i \in Ids(ql) |-> default],
      [i \in Ids(ql) |-> IF i = id THEN value ELSE default] }

\* the default of the vikriti sliders
VikritiSliderDefault == 1

\* json.dumps(data, ensure_ascii=False): the text of data
json_dumps(data) == [json |-> data]

\* the payload of the handler, without its created_at
AssessmentPayload(patient_row, pr_answers, vk_answers, psy_ans, cfg, ties) ==
    LET prak_pct == score_dosha_from_answers(pr_answers, cfg.questions.prakriti)
        vik_pct == score_dosha_from_answers(vk_answers, cfg.questions.vikriti)
        psych == psychometric_tipiscale(psy_ans)
    IN  [ patient |-> patient_row,
          prakriti_answers |-> pr_answers,
          vikriti_answers |-> vk_answers,
          psych_answers |-> psy_ans,
          prakriti_pct |-> prak_pct,
          vikriti_pct |-> vik_pct,
          psych_pct |-> psych,
          career_recs |-> recommend_career(prak_pct, psych),
          relationship_tips |-> recommend_relationship(prak_pct, psych),
          health_recs |-> recommend_health(prak_pct, vik_pct, ties) ]

\* generate_wow_advice: the hero line names the dominant categories of the two
\* distributions, the other texts are fixed
generate_wow_advice(prak_pct, vik_pct) ==
    [hero |-> <<MaxKey(prak_pct), MaxKey(vik_pct)>>, checklist |-> "ONE-PAGE ACTION CHECKLIST"]

\* as save_assessment, the row of the patient replaced where there is one
SaveAssessmentPerPatient(rows, patient_id, assessor, data) ==
    LET row == [patient_id |-> patient_id, assessor |-> assessor,
                data_json |-> json_dumps(data)]
    IN  IF \E i \in 1 .. Len(rows) : rows[i].patient_id = patient_id
        THEN [i \in 1 .. Len(rows) |->
                 IF rows[i].patient_id = patient_id THEN row ELSE rows[i]]
        ELSE Append(rows, row)

\* save_assessment: INSERT INTO assessments; the id of the row is its place
save_assessment(rows, patient_id, assessor, data) ==
    Append(rows, [patient_id |-> patient_id, assessor |-> assessor,
                  data_json |-> json_dumps(data)])

\* a run with Compute & Save Assessment pressed: in the second tab, behind the
\* login and the st.stop() of an empty patients table; the sliders are at their
\* defaults but for the one slider of each bank that has the value moved
MegaComputeWith(moved) ==
    /\ ConfigBootstrap
    /\ cfg_op' = "startup"
    /\ session.auth
    /\ Len(patients) > 0
    /\ Len(assessments) < MaxAssessments
    /\ \E psel \in 1 .. Len(patients), ties \in TieChoices,
          pr_answers \in SliderSets(CONFIG'.questions.prakriti, LikertDefault, "P5",
                                    moved.prakriti),
          vk_answers \in SliderSets(CONFIG'.questions.vikriti, VikritiSliderDefault,
                                    "V4", moved.vikriti),
          psy_ans \in SliderSets(CONFIG'.questions.psychometric, PsySliderDefault,
                                 "O1", moved.psych) :
          \E payload \in { AssessmentPayload([id |-> psel, name |-> patients[psel]],
                                              pr_answers, vk_answers, psy_ans,
                                              CONFIG', ties) } :
              LET wow == generate_wow_advice(payload.prakriti_pct, payload.vikriti_pct)
              IN  /\ assessments' = save_assessment(assessments, psel, session.user,
                                                    payload)
                  /\ session' = [session EXCEPT
                                    !.last_assessment = payload @@ [wow |-> wow],
                                    !.last_aid = Len(assessments')]
    /\ users' = MegaSeed(users)
    /\ seeded_by' = SeededBy(users, "mega")
    /\ last_op' = "mega_compute"
    /\ ui_msg' = [form |-> "compute", kind |-> "success", username |-> ""]
    /\ UNCHANGED <<patients, last_login, admin_reset, cfg_save>>

\* the submission with one slider of each bank moved to the top or left alone
MegaCompute ==
    MegaComputeWith([prakriti |-> LikertMax, vikriti |-> LikertMax, psych |-> PsyMax])

\* the submission with every slider left at its default
MegaComputeDefaults ==
    MegaComputeWith([prakriti |-> LikertDefault, vikriti |-> VikritiSliderDefault,
                     psych |-> PsySliderDefault])

\* the bytes of branded_pdf_report(payload["patient"], ..., report_id=aid): the
\* report of that assessment
BrandedPdf(payload, aid) == [report_of |-> payload, report_id |-> aid]

\* a run with "Prepare Branded PDF (full report)" pressed: the report of the
\* session's last assessment is kept in st.session_state["last_pdf"]
MegaPreparePdf ==
    /\ ConfigBootstrap
    /\ cfg_op' = "startup"
    /\ session.auth
    /\ Len(patients) > 0
    /\ session.last_assessment # None
    /\ session' = [session EXCEPT
                      !.last_pdf = BrandedPdf(session.last_assessment, session.last_aid)]
    /\ users' = MegaSeed(users)
    /\ seeded_by' = SeededBy(users, "mega")
    /\ last_op' = "mega_prepare_pdf"
    /\ ui_msg' = [form |-> "prepare_pdf", kind |-> "success", username |-> ""]
    /\ UNCHANGED <<patients, last_login, admin_reset, cfg_save, assessments>>

\* the "Download Branded PDF (professional)" button of a run: its data is
\* last_pdf where the session has one, the report generated in the run
\* otherwise; its file name holds the patient name and id of last_assessment
BrandedDownload(sess) ==
    [data |-> IF sess.last_pdf # None THEN sess.last_pdf
              ELSE BrandedPdf(sess.last_assessment, sess.last_aid),
     file_name |-> <<"Branded_Report", sess.last_assessment.patient.name, sess.last_aid>>]

\* the statements of docx_report behind its "return bio" (the DOCX, action
\* plan and .ics downloads): they are part of the function body and behind the
\* return, so no run executes them
AfterReturnOfDocxReport == FALSE

\* the download buttons a run of the script renders for the session
DownloadButtons(sess, pats) ==
    IF ~sess.auth \/ Len(pats) = 0 THEN {}
    ELSE (IF sess.last_assessment # None
          THEN {"Download Branded PDF (professional)"} ELSE {})
         \cup (IF AfterReturnOfDocxReport
               THEN {"Download DOCX report", "Download 1-page Action Plan (PDF)",
                     "Download follow-up (.ics)"}
               ELSE {})
         \cup {"Download SQLite DB"}

----------------------------------------------------------------------------
(* Properties of the assessments *)

\* C13: the assessments table is an append-only log: every step keeps the rows
\* there are, in place and unchanged; a Compute & Save Assessment adds exactly
\* one row, whose data_json holds the answer sets, the distributions and the
\* recommendations of the submission; no other operation adds a row.
C13_AssessmentsAppendOnly ==
    [][ /\ Len(assessments') >= Len(assessments)
        /\ SubSeq(assessments', 1, Len(assessments)) = assessments
        /\ last_op' # "mega_compute" => assessments' = assessments
        /\ last_op' = "mega_compute" =>
              /\ Len(assessments') = Len(assessments) + 1
              /\ LET row == assessments'[Len(assessments')]
                     d == row.data_json.json
                 IN  /\ row.assessor = session.user
                     /\ row.patient_id \in 1 .. Len(patients)
                     /\ DOMAIN d.prakriti_answers = Ids(CONFIG'.questions.prakriti)
                     /\ DOMAIN d.vikriti_answers = Ids(CONFIG'.questions.vikriti)
                     /\ DOMAIN d.psych_answers = PsyIds
                     /\ d.prakriti_pct =
                           score_dosha_from_answers(d.prakriti_answers,
                                                    CONFIG'.questions.prakriti)
                     /\ d.vikriti_pct =
                           score_dosha_from_answers(d.vikriti_answers,
                                                    CONFIG'.questions.vikriti)
                     /\ DOMAIN d.psych_pct = Axes
                     /\ Len(d.career_recs) > 0
                     /\ Len(d.relationship_tips) > 0
                     /\ Len(d.health_recs.diet) > 0
                     /\ Len(d.health_recs.lifestyle) > 0
                     /\ Len(d.health_recs.herbs) > 0 ]_vars

\* C13 witness: two submissions have been saved, with different answers, and
\* both rows are in the table.
C13_Witness ==
    /\ last_op = "mega_compute"
    /\ Len(assessments) = 2
    /\ assessments[1].data_json # assessments[2].data_json
    /\ session.last_aid = 2

\* C16: once an assessment has been computed in the session, the app offers
\* the downloads of the main report PDF, the one-page action plan PDF, the DOCX
\* report and the follow-up .ics.
C16_FourDownloadsOffered ==
    (session.auth /\ Len(patients) > 0 /\ session.last_assessment # None) =>
        {"Download Branded PDF (professional)", "Download 1-page Action Plan (PDF)",
         "Download DOCX report", "Download follow-up (.ics)"}
            \subseteq DownloadButtons(session, patients)

\* C27: the branded PDF served by the download button is the report of the
\* session's current last_assessment: a PDF prepared for an earlier assessment
\* is never offered under the name and id of a newer one.
C27_DownloadIsOfCurrentAssessment ==
    (session.auth /\ Len(patients) > 0 /\ session.last_assessment # None) =>
        BrandedDownload(session).data
            = BrandedPdf(session.last_assessment, session.last_aid)

----------------------------------------------------------------------------
(* Properties of the startup seed and the login *)

\* C9: on a database freshly initialised by the app's startup, verify_user
\* ('admin', 'admin123') returns ok = True with the role admin, and
\* verify_user('admin', p) returns ok = False for every other password p.
C9_DefaultAdminAuthenticates ==
    (seeded_by = "mega" /\ ~admin_reset) =>
        /\ \A p \in Passwords :
              verify_user(users, "admin", p).ok = (p = DefaultAdminPassword)
        /\ verify_user(users, "admin", DefaultAdminPassword).info.role = "admin"
        /\ (last_login # None /\ last_login.username = "admin") =>
              /\ last_login.ok = (last_login.password = DefaultAdminPassword)
              /\ last_login.ok => last_login.info.role = "admin"

\* C9 witness: the first run on the empty database is a login with admin and
\* admin123, and it succeeds with the role admin.
C9_Witness ==
    /\ seeded_by = "mega"
    /\ ~admin_reset
    /\ Len(users) = 1
    /\ last_login # None
    /\ last_login.username = "admin"
    /\ last_login.password = DefaultAdminPassword
    /\ last_login.ok
    /\ session.auth
    /\ session.user_info.role = "admin"

AdminRows == { i \in 1 .. Len(users) : users[i].username = "admin" }

\* C10: the default admin is seeded once: a startup inserts the admin row only
\* into an empty users table, there is never more than one row with the username
\* admin, and a startup on a non-empty users table leaves every row unchanged.
C10_SeededOnce ==
    /\ Cardinality(AdminRows) <= 1
    /\ [][ /\ Cardinality(AdminRows)' <= 1
           /\ last_op' \in {"mega_startup", "full_v2_startup"} =>
                 /\ Len(users) > 0 => users' = users
                 /\ Len(users) = 0 =>
                       /\ Len(users') = 1
                       /\ users'[1].username = "admin"
                       /\ users'[1].role = "admin" ]_vars

\* C10 witness: the admin's hash has been changed, other users exist, and a
\* startup has just run on that table.
C10_Witness ==
    /\ last_op = "mega_startup"
    /\ admin_reset
    /\ Len(users) >= 2
    /\ Cardinality(AdminRows) = 1
    /\ \E i \in AdminRows : users[i].password_hash = hash_password(DefaultAdminPassword)

\* the rows of u whose username is not admin, in order
OtherUsers(u) == SelectSeq(u, LAMBDA r : r.username # "admin")

\* C22: after reset_admin.py or force_admin_bcrypt.py has run, the login of
\* admin with admin123 succeeds in the app, one row has the username admin,
\* and the rows of the other users are as they were.
C22_ResetAdminCanLogIn ==
    [][last_op' \in {"reset_admin", "force_admin_bcrypt"} =>
          /\ verify_user(users', "admin", DefaultAdminPassword).ok
          /\ Cardinality({ i \in 1 .. Len(users') : users'[i].username = "admin" }) = 1
          /\ OtherUsers(users') = OtherUsers(users)]_vars

\* the password the row of username un was stored with
StoredPassword(u, un) ==
    u[CHOOSE i \in 1 .. Len(u) : u[i].username = un].password_hash.pw

\* the operations of the app behind the login prompt
BehindLogin == {"mega_create_patient", "mega_create_user", "mega_compute", "mega_save_config"}

\* verify_user on the table u: (False, None) for an unknown username, ok =
\* False for a known username with a password other than the stored one
RejectsBadCredentials(u) ==
    \A un \in Usernames, pw \in Passwords :
        /\ ~HasUser(u, un) => verify_user(u, un, pw) = [ok |-> FALSE, info |-> None]
        /\ (HasUser(u, un) /\ StoredPassword(u, un) # pw) => ~verify_user(u, un, pw).ok

\* C23: a session becomes authenticated only by a login for which verify_user
\* returned ok = True; verify_user returns (False, None) for an unknown
\* username and ok = False for a known username with a wrong password; and a
\* run of a session that is not authenticated stops at the login prompt: it
\* performs no patient, assessment, user or config operation.
C23_AuthOnlyByVerifiedLogin ==
    /\ RejectsBadCredentials(users)
    /\ ~session.auth
    /\ [][ /\ RejectsBadCredentials(users')
           /\ (~session.auth /\ session'.auth) =>
                 /\ last_op' = "mega_login"
                 /\ last_login'.ok
                 /\ verify_user(users', last_login'.username, last_login'.password).ok
                 /\ session'.user = last_login'.username
           /\ (last_op' = "mega_login" /\ ~last_login'.ok) => session'.auth = session.auth
           /\ last_op' \in BehindLogin => session.auth
           /\ ~session.auth =>
                 /\ patients' = patients
                 /\ assessments' = assessments
                 /\ users' = MegaSeed(users)
                 /\ cfg_file' = BootstrapFile(cfg_file)
                 /\ cfg_save' = cfg_save ]_vars

\* C23 witness: bob, a user the admin created, has just logged in with the
\* password stored for bob, and the session is authenticated as bob.
C23_Witness ==
    /\ last_op = "mega_login"
    /\ last_login.username = "bob"
    /\ last_login.ok
    /\ session.auth
    /\ session.user = "bob"

----------------------------------------------------------------------------
(* Properties of the config file *)

\* CONFIG after a run that loads the text f
Loaded(f) == IF yaml_safe_load(f) = YamlError THEN Unbound ELSE yaml_safe_load(f)

\* C11: a startup that finds the config file existing never writes it: the
\* file after the startup is the file before it, and CONFIG is what the loader
\* makes of that file, not DEFAULT_CFG.
C11_BootstrapKeepsExistingFile ==
    [][ (cfg_op' \in {"startup", "startup_crash"} /\ cfg_file # NoFile) =>
            /\ cfg_file' = cfg_file
            /\ CONFIG' = Loaded(cfg_file)
            /\ yaml_safe_load(cfg_file) # DEFAULT_CFG => CONFIG' # DEFAULT_CFG ]_vars

\* C11 witness: a startup has run on a file the user had edited, and CONFIG
\* is the edited config.
C11_Witness ==
    /\ cfg_op = "startup"
    /\ cfg_file \in { yaml_safe_dump(c) : c \in EditedConfigs }
    /\ CONFIG = yaml_safe_load(cfg_file)
    /\ CONFIG # DEFAULT_CFG

\* C17: after "Save config file" has been pressed with a text that parses as a
\* YAML mapping, the config file holds that config and the success message is
\* shown.
C17_ValidYamlIsSaved ==
    (cfg_op = "save_config" /\ cfg_save.text.yaml = "mapping") =>
        /\ cfg_file # NoFile
        /\ yaml_safe_load(cfg_file) = yaml_safe_load(cfg_save.text)
        /\ cfg_save.msg = "Config saved"

----------------------------------------------------------------------------
(* Properties of user creation *)

StoredRole(un) == users[CHOOSE i \in 1 .. Len(users) : users[i].username = un].role

\* C12: a Create user that reaches the INSERT with a username that exists shows
\* an error, leaves the users table as it was (the existing row keeps its hash,
\* display name and role, and no second row of that username appears), and
\* leaves the session logged in.
C12_DuplicateUsernameFails ==
    [][ ( /\ last_op' = "mega_create_user"
          /\ ui_msg'.kind # "warning"
          /\ HasUser(users, ui_msg'.username) ) =>
            /\ ui_msg'.kind = "error"
            /\ users' = users
            /\ Cardinality({ i \in 1 .. Len(users') :
                               users'[i].username = ui_msg'.username }) = 1
            /\ session' = session
            /\ session'.auth ]_vars

\* C12 witness: Create user has been pressed for the username admin, with a
\* password, and the error is shown.
C12_Witness ==
    /\ last_op = "mega_create_user"
    /\ ui_msg = [form |-> "create_user", kind |-> "error", username |-> "admin"]
    /\ Cardinality(AdminRows) = 1
    /\ session.auth

\* C15: a run of the app inserts a row into a users table that has rows only
\* while the role stored for the logged-in user is admin; in a session logged
\* in with the role clinician the form is not rendered and Create user is
\* never run.
C15_UserCreationRoleGated ==
    [][ /\ ( /\ last_op' \in {"mega_startup", "mega_login", "mega_create_patient",
                             "mega_create_user", "mega_save_config"}
             /\ Len(users) > 0
             /\ users' # users ) =>
               /\ session.auth
               /\ HasUser(users, session.user)
               /\ StoredRole(session.user) = "admin"
        /\ (session.auth /\ session.user_info.role = "clinician") =>
               /\ ~ShowsUserForm(session.user_info)
               /\ last_op' # "mega_create_user"
               /\ last_op' \notin {"full_v2_startup", "full_v2_reset_admin"} =>
                     users' = users ]_vars

\* C15 witness: a clinician is logged in, a patient exists (the third tab is
\* rendered), and the users table holds the admin and the clinician alone.
C15_Witness ==
    /\ session.auth
    /\ session.user_info.role = "clinician"
    /\ Len(patients) > 0
    /\ Len(users) = 2
    /\ last_op \in {"mega_startup", "mega_create_patient"}

----------------------------------------------------------------------------
(* Properties of the tabs *)

\* the buttons of the Clinician Dashboard tab and of the Config & Export tab
LateTabOps == {"mega_create_user", "mega_save_config"}

\* C30: no run works a button of the Clinician Dashboard or the Config &
\* Export tab (the admin's Create user, Save config file) while the patients
\* table is empty; once a patient exists, an authenticated session whose
\* config loads can save the config, and its admin can create a user.
C30_LateTabsNeedAPatient ==
    /\ last_op \in LateTabOps => Len(patients) > 0
    /\ (session.auth /\ Len(patients) = 0) =>
            ~ENABLED MegaCreateUser /\ ~ENABLED MegaSaveConfig
    /\ (session.auth /\ Len(patients) > 0 /\ RunReachesUi(cfg_file)) =>
            /\ ENABLED MegaSaveConfig
            /\ (ShowsUserForm(session.user_info) /\ Len(users) < MaxUsers) =>
                   ENABLED MegaCreateUser

\* C30 witness: the admin has created a user, with the one patient the table
\* holds registered in the same session.
C30_Witness ==
    /\ last_op = "mega_create_user"
    /\ ui_msg.kind = "success"
    /\ session.auth
    /\ Len(patients) = 1

----------------------------------------------------------------------------
(* Specifications: each draws the inputs of one component and runs it, the
   other components idle *)

ScoreIdle == question_list = <<>> /\ answers = <<>> /\ score_result = NoResult
PsyIdle == psy_answers = <<>> /\ psych_pct = NoResult
RecIdle ==
    /\ dosha_pct = <<>> /\ vikriti_pct = <<>> /\ psycho_pct = <<>>
    /\ career_recs = NoResult /\ rel_tips = NoResult /\ health_recs = NoResult

PdfIdle == PdfInit
DbIdle == DbInit

CfgIdle == CfgInit
AsmtIdle == assessments = <<>>
TmpIdle == TmpInit
VrIdle == VrInit
FtIdle == FtInit

ScoreNext == Score /\ UNCHANGED <<psyVars, recVars, pdfVars, dbVars, cfgVars, asmtVars,
        tmpVars, vrVars, ftVars>>

InitScore == ScoreInit /\ PsyIdle /\ RecIdle /\ PdfIdle /\ DbIdle /\ CfgIdle
        /\ AsmtIdle /\ TmpIdle /\ VrIdle /\ FtIdle

SpecScore == InitScore /\ [][ScoreNext]_vars

PsyNext == Psych /\ UNCHANGED <<scoreVars, recVars, pdfVars, dbVars, cfgVars, asmtVars,
        tmpVars, vrVars, ftVars>>

InitPsych == PsyInit /\ ScoreIdle /\ RecIdle /\ PdfIdle /\ DbIdle /\ CfgIdle
        /\ AsmtIdle /\ TmpIdle /\ VrIdle /\ FtIdle

SpecPsych == InitPsych /\ [][PsyNext]_vars

RecNext == Recommend /\ UNCHANGED <<scoreVars, psyVars, pdfVars, dbVars, cfgVars,
        asmtVars, tmpVars, vrVars, ftVars>>

InitRecommend == RecInit /\ ScoreIdle /\ PsyIdle /\ PdfIdle /\ DbIdle /\ CfgIdle
        /\ AsmtIdle /\ TmpIdle /\ VrIdle /\ FtIdle

SpecRecommend == InitRecommend /\ [][RecNext]_vars

InitHealth == HealthInit /\ ScoreIdle /\ PsyIdle /\ PdfIdle /\ DbIdle /\ CfgIdle
        /\ AsmtIdle /\ TmpIdle /\ VrIdle /\ FtIdle

SpecHealth == InitHealth /\ [][RecNext]_vars

PdfOnly == UNCHANGED <<scoreVars, psyVars, recVars, dbVars, cfgVars, asmtVars, tmpVars,
        vrVars, ftVars>>

PdfNext ==
    \/ PdfCall /\ PdfOnly
    \/ PdfCharts /\ PdfOnly
    \/ PdfEmbed /\ PdfOnly
    \/ PdfPrimaryOk /\ PdfOnly
    \/ PdfPrimaryFail /\ PdfOnly
    \/ PdfFallbackOk /\ PdfOnly
    \/ PdfFallbackFail /\ PdfOnly
    \/ PdfErrorPdf /\ PdfOnly

InitPdf == PdfInit /\ ScoreIdle /\ PsyIdle /\ RecIdle /\ DbIdle /\ CfgIdle
        /\ AsmtIdle /\ TmpIdle /\ VrIdle /\ FtIdle

SpecPdf == InitPdf /\ [][PdfNext]_vars

\* the frame of an operation that leaves the assessments table alone
DbOnly == UNCHANGED <<scoreVars, psyVars, recVars, pdfVars, asmtVars, tmpVars, vrVars, ftVars>>

DbNext ==
    \/ MegaStartup /\ DbOnly
    \/ MegaLogin /\ DbOnly
    \/ MegaCreatePatient /\ DbOnly
    \/ MegaCreateUser /\ DbOnly
    \/ NewSession /\ DbOnly
    \/ FullV2Startup /\ DbOnly
    \/ FullV2ResetAdmin /\ DbOnly

InitDb == DbInit /\ CfgInit /\ ScoreIdle /\ PsyIdle /\ RecIdle /\ PdfIdle
        /\ AsmtIdle /\ TmpIdle /\ VrIdle /\ FtIdle

SpecDb == InitDb /\ [][DbNext]_vars

\* the users table with the admin-reset scripts run between the runs of the app
ResetNext ==
    \/ MegaStartup /\ DbOnly
    \/ MegaLogin /\ DbOnly
    \/ MegaCreatePatient /\ DbOnly
    \/ MegaCreateUser /\ DbOnly
    \/ ResetAdminScript /\ DbOnly
    \/ ForceAdminBcryptScript /\ DbOnly

InitReset ==
    DbInit /\ CfgInit /\ ScoreIdle /\ PsyIdle /\ RecIdle /\ PdfIdle /\ AsmtIdle /\ TmpIdle
        /\ VrIdle /\ FtIdle

SpecReset == InitReset /\ [][ResetNext]_vars

\* the config file: startups, the YAML editor and edits of the file, with the
\* login and the patient the editor is behind
CfgNext ==
    \/ MegaStartup /\ DbOnly
    \/ MegaStartupCrash /\ DbOnly
    \/ MegaLogin /\ DbOnly
    \/ MegaCreatePatient /\ DbOnly
    \/ MegaSaveConfig /\ DbOnly
    \/ EditConfigFile /\ UNCHANGED dbVars /\ DbOnly

InitCfg == CfgInit /\ DbInit /\ ScoreIdle /\ PsyIdle /\ RecIdle /\ PdfIdle
        /\ AsmtIdle /\ TmpIdle /\ VrIdle /\ FtIdle

SpecCfg == InitCfg /\ [][CfgNext]_vars

\* the assessments: startups, logins, patients and submissions
AsmtOnly == UNCHANGED <<scoreVars, psyVars, recVars, pdfVars, tmpVars, vrVars, ftVars>>

AsmtNext ==
    \/ MegaStartup /\ DbOnly
    \/ MegaLogin /\ DbOnly
    \/ MegaCreatePatient /\ DbOnly
    \/ MegaCompute /\ AsmtOnly
    \/ MegaPreparePdf /\ AsmtOnly
    \/ NewSession /\ DbOnly

InitAsmt == DbInit /\ CfgInit /\ AsmtIdle /\ ScoreIdle /\ PsyIdle /\ RecIdle
        /\ PdfIdle /\ TmpIdle /\ VrIdle /\ FtIdle

SpecAsmt == InitAsmt /\ [][AsmtNext]_vars

\* the app: every operation of a session of Mega
AppNext ==
    \/ MegaStartup /\ DbOnly
    \/ MegaLogin /\ DbOnly
    \/ MegaCreatePatient /\ DbOnly
    \/ Len(users) < MaxAppUsers /\ MegaCreateUser /\ DbOnly
    \/ Len(assessments) < MaxAppAssessments /\ MegaComputeDefaults /\ AsmtOnly
    \/ MegaSaveConfig /\ DbOnly
    \/ NewSession /\ DbOnly

InitApp ==
    DbInit /\ CfgInit /\ AsmtIdle /\ ScoreIdle /\ PsyIdle /\ RecIdle /\ PdfIdle /\ TmpIdle
        /\ VrIdle /\ FtIdle

SpecApp == InitApp /\ [][AppNext]_vars

\* the tabs: the runs of a session that work the registry, the user form and
\* the config editor
TabsNext ==
    \/ MegaStartup /\ DbOnly
    \/ MegaLogin /\ DbOnly
    \/ MegaCreatePatient /\ DbOnly
    \/ Len(users) < MaxAppUsers /\ MegaCreateUser /\ DbOnly
    \/ MegaSaveConfig /\ DbOnly
    \/ NewSession /\ DbOnly

SpecTabs == InitApp /\ [][TabsNext]_vars

\* the temp directory: the report generations of several sessions and the clock
TmpOnly ==
    UNCHANGED <<scoreVars, psyVars, recVars, pdfVars, dbVars, cfgVars, asmtVars,
        vrVars, ftVars>>

TmpNext ==
    \/ Tick /\ TmpOnly
    \/ (\E g \in Gens : GenCall(g)) /\ TmpOnly
    \/ (\E g \in Gens : GenCharts(g)) /\ TmpOnly
    \/ (\E g \in Gens : GenEmbed(g)) /\ TmpOnly
    \/ (\E g \in Gens : GenBuildOk(g)) /\ TmpOnly
    \/ (\E g \in Gens : GenBuildFail(g)) /\ TmpOnly

InitTmp ==
    TmpInit /\ ScoreIdle /\ PsyIdle /\ RecIdle /\ PdfIdle /\ DbIdle /\ CfgIdle
        /\ AsmtIdle /\ VrIdle /\ FtIdle

SpecTmp == InitTmp /\ [][TmpNext]_vars

\* the report generator variants
VrOnly ==
    UNCHANGED <<scoreVars, psyVars, recVars, pdfVars, dbVars, cfgVars, asmtVars,
        tmpVars, ftVars>>

VrNext ==
    \/ VrCall /\ VrOnly
    \/ VrCharts /\ VrOnly
    \/ VrPrimaryOk /\ VrOnly
    \/ VrPrimaryFail /\ VrOnly
    \/ VrFallbackOk /\ VrOnly
    \/ VrFallbackFail /\ VrOnly

InitVr ==
    VrInit /\ ScoreIdle /\ PsyIdle /\ RecIdle /\ PdfIdle /\ DbIdle /\ CfgIdle /\ AsmtIdle
        /\ TmpIdle /\ FtIdle

SpecVr == InitVr /\ [][VrNext]_vars

\* the page footer
FtOnly ==
    UNCHANGED <<scoreVars, psyVars, recVars, pdfVars, dbVars, cfgVars, asmtVars,
        tmpVars, vrVars>>

FtNext ==
    \/ FooterBuild /\ FtOnly
    \/ FooterDraw /\ FtOnly

InitFt ==
    FtInit /\ ScoreIdle /\ PsyIdle /\ RecIdle /\ PdfIdle /\ DbIdle /\ CfgIdle /\ AsmtIdle
        /\ TmpIdle /\ VrIdle

SpecFt == InitFt /\ [][FtNext]_vars

====
